---- MODULE Spec2Model ----
\* Vector indexing and aggregation engine of betterdocs:
\*   Scripts/build_ann_index.py  (blocked exact k-NN graph, ANN package build)
\*   Scripts/routing.py          (l2_normalize, book/section mean pooling)
\*   Scripts/pdf_to_bin_inline_ann.py  (PDF to shard: chunking, embedding,
\*                                      inline ANN artifact, verify_bin)
\*   Scripts/bin_to_routing_with_semantic_labels.py  (semantic labels)
\*   Scripts/pdf_to_embeddings_and_inline_ann.py, Scripts/voyage.py (chunking)
\* Floats are modelled in fixed point: a unit vector has length Unit, and the
\* IEEE specials NaN / +Inf / -Inf are the sentinels NaN, PosInf, NegInf.
EXTENDS Integers, Sequences, FiniteSets, TLC

\* ---------------------------------------------------------------- bounds
MaxN == 3          \* vectors handed to chunked_knn_graph
MaxM == 2          \* graph out-degree m
MaxBlock == 2      \* block_size
MaxDim == 2        \* length of the vectors handed to l2_normalize
MaxChunks == 3     \* chunks read from one routing package
MaxAnnChunks == 3  \* chunks of one ANN package
MaxPkgs == 2       \* .bin files of one routing batch
MaxPkgChunks == 2  \* chunks of a package of the batch
MaxBinN == 2       \* rows of the matrix handed to build_binary
MaxBinM == 2       \* neighbor width handed to build_binary
MaxPdfs == 2       \* PDF files of a directory
MaxChunkPages == 2 \* pages handed to chunk_text_with_page_context
MaxWindows == 4    \* windows of a chunking run that are followed

\* ------------------------------------------------------------ state
VARIABLES knn_vectors, knn_m, knn_block, knn_tie, neighbors, knn_pending
VARIABLES nz_arg, nz_ret, nz_pc
VARIABLES route_args, section_pages, min_chunks, route_chunks, book_dim,
          book_sum, book_count, max_page_seen, section_stats, route_pc,
          books_out, skipped
VARIABLES ann_args, ann_chunks, embeddings, id_map, ann_pc, ann_out
VARIABLES bin_files, out_obj
VARIABLES bb_vectors, bb_neighbors, bb_entry, bb_ef_search, bb_ret, bb_pc
VARIABLES pdf_args, pdfs, used_codes, mapping_files, shards, file_mapping, pdf_pc
VARIABLES total_pages, raw_chunks, processed_chunks, batch_i
VARIABLES sem_args, sem_books, sem_pc, sem_attempt, sem_i, sem_vectors, label_vecs,
          semantic_call_info, written_files, sem_error
VARIABLES vb_file, vb_ret, vb_pc
VARIABLES ck_script, ck_pages, ck_chunk_size, ck_overlap, ck_page, ck_start, ck_chunks, ck_pc

knn_vars == <<knn_vectors, knn_m, knn_block, knn_tie, neighbors, knn_pending>>

nz_vars == <<nz_arg, nz_ret, nz_pc>>

route_vars == <<route_args, section_pages, min_chunks, route_chunks, book_dim,
                book_sum, book_count, max_page_seen, section_stats, route_pc,
                books_out, skipped>>

ann_vars == <<ann_args, ann_chunks, embeddings, id_map, ann_pc, ann_out>>

batch_vars == <<bin_files, out_obj>>

bb_vars == <<bb_vectors, bb_neighbors, bb_entry, bb_ef_search, bb_ret, bb_pc>>

pdf_vars ==
    <<pdf_args, pdfs, used_codes, mapping_files, shards, file_mapping, pdf_pc,
      total_pages, raw_chunks, processed_chunks, batch_i>>

sem_vars ==
    <<sem_args, sem_books, sem_pc, sem_attempt, sem_i, sem_vectors, label_vecs,
      semantic_call_info, written_files, sem_error>>

vb_vars == <<vb_file, vb_ret, vb_pc>>

ck_vars == <<ck_script, ck_pages, ck_chunk_size, ck_overlap, ck_page, ck_start, ck_chunks, ck_pc>>

vars ==
    <<knn_vars, nz_vars, route_vars, ann_vars, batch_vars, bb_vars, pdf_vars,
      sem_vars, vb_vars, ck_vars>>

\* each program runs on its own; the state of the others stays put
KnnOnly == UNCHANGED <<nz_vars, route_vars, ann_vars, batch_vars, bb_vars, pdf_vars,
                       sem_vars, vb_vars, ck_vars>>

NzOnly == UNCHANGED <<knn_vars, route_vars, ann_vars, batch_vars, bb_vars, pdf_vars,
                       sem_vars, vb_vars, ck_vars>>

RouteOnly == UNCHANGED <<knn_vars, nz_vars, ann_vars, batch_vars, bb_vars, pdf_vars,
                       sem_vars, vb_vars, ck_vars>>

AnnOnly == UNCHANGED <<knn_vars, nz_vars, route_vars, batch_vars, bb_vars, pdf_vars,
                       sem_vars, vb_vars, ck_vars>>

BatchOnly == UNCHANGED <<knn_vars, nz_vars, ann_vars, bb_vars, pdf_vars,
                       sem_vars, vb_vars, ck_vars>>

BinaryOnly ==
    UNCHANGED <<knn_vars, nz_vars, route_vars, ann_vars, batch_vars, pdf_vars,
                sem_vars, vb_vars, ck_vars>>

PdfOnly ==
    UNCHANGED <<knn_vars, nz_vars, route_vars, ann_vars, batch_vars, bb_vars,
                sem_vars, vb_vars, ck_vars>>

SemOnly ==
    UNCHANGED <<knn_vars, nz_vars, route_vars, ann_vars, batch_vars, bb_vars,
                pdf_vars, vb_vars, ck_vars>>

VerifyOnly ==
    UNCHANGED <<knn_vars, nz_vars, route_vars, ann_vars, batch_vars, bb_vars,
                pdf_vars, sem_vars, ck_vars>>

ChunkOnly ==
    UNCHANGED <<knn_vars, nz_vars, route_vars, ann_vars, batch_vars, bb_vars,
                pdf_vars, sem_vars, vb_vars>>

\* ------------------------------------------------------- number model
Unit == 60
NegInf == 0 - 1000000
PosInf == 1000000
NaN == 2000000

Min(a, b) == IF a <= b THEN a ELSE b
Max(a, b) == IF a >= b THEN a ELSE b

IsFinite(x) == x \notin {NaN, PosInf, NegInf}

\* an ndarray: its entries are computed once, when the array is made
AsArray(f) == IF f = f THEN f ELSE f

RECURSIVE DotFrom(_, _, _)
DotFrom(a, b, i) == IF i > Len(a) THEN 0 ELSE a[i] * b[i] + DotFrom(a, b, i + 1)

\* one entry of  block @ vectors.T
Dot(a, b) == DotFrom(a, b, 1)

Abs(x) == IF x >= 0 THEN x ELSE 0 - x

\* float division, rounded toward zero in the fixed-point model
TruncDiv(a, b) == IF a >= 0 THEN a \div b ELSE 0 - ((0 - a) \div b)

RECURSIVE SumAbsFrom(_, _)
SumAbsFrom(v, i) == IF i > Len(v) THEN 0 ELSE Abs(v[i]) + SumAbsFrom(v, i + 1)

\* magnitudes from Huge on overflow float32 when squared
Huge == 100000

\* np.linalg.norm of a 1-D array: NaN if a component is NaN, +inf if one is
\* infinite or a square overflows, else sqrt(x . x)
Norm(v) ==
    IF \E i \in DOMAIN v : v[i] = NaN THEN NaN
    ELSE IF \E i \in DOMAIN v : v[i] \in {PosInf, NegInf} \/ Abs(v[i]) >= Huge THEN PosInf
    ELSE LET sq == Dot(v, v)
             hi == SumAbsFrom(v, 1)
         IN  CHOOSE r \in 0 .. hi : r * r <= sq /\ (r + 1) * (r + 1) > sq

None == <<>>

Permutations0(n) ==
    {p \in [0 .. n - 1 -> 0 .. n - 1] : \A a, b \in 0 .. n - 1 : p[a] = p[b] => a = b}

\* ------------------------------------------------- chunked_knn_graph

\* L2-normalized rows (length Unit), as the docstring requires
KnnVecSet == {<<60, 0>>, <<0 - 60, 0>>, <<36, 48>>}

NodeCount(vectors) == Cardinality(DOMAIN vectors)

BlockEnd(start, block_size, n) == Min(start + block_size, n)

SelfColBug(start, r) == r
SelfCol(start, r) == start + r

\* sims = block @ vectors.T with sims[r, global_idx] = -inf
BlockSims(vectors, start, end) ==
    [r \in 0 .. (end - start - 1) |->
        AsArray([j \in DOMAIN vectors |->
            IF j = SelfCol(start, r) THEN NegInf
            ELSE Dot(vectors[start + r], vectors[j])])]

TopKBug(m, n) == Min(m, n)
TopK(m, n) == Min(m, n - 1)

SortsAfterByIndex(row, tie, a, b) ==
    \/ row[a] > row[b]
    \/ row[a] = row[b] /\ a < b
\* a sorts after b in numpy's ascending order of the row; equal scores are
\* ordered by the implementation (tie), which numpy leaves unspecified
SortsAfter(row, tie, a, b) ==
    \/ row[a] > row[b]
    \/ row[a] = row[b] /\ tie[a] < tie[b]

IdxPartBug(row, top_k, tie) ==
    {j \in DOMAIN row :
        Cardinality({k \in DOMAIN row : SortsAfter(row, tie, j, k)}) < top_k}
\* np.argpartition(sims, -top_k)[-top_k:] : the top_k largest entries of the row
IdxPart(row, top_k, tie) ==
    {j \in DOMAIN row :
        Cardinality({k \in DOMAIN row : SortsAfter(row, tie, k, j)}) < top_k}

SortedIdxBug(row, part, tie) ==
    [p \in 0 .. (Cardinality(part) - 1) |->
        CHOOSE j \in part :
            Cardinality({k \in part : SortsAfter(row, tie, j, k)}) = p]
\* idx_part reordered by np.argsort(part_scores)[:, ::-1] : descending score
SortedIdx(row, part, tie) ==
    [p \in 0 .. (Cardinality(part) - 1) |->
        CHOOSE j \in part :
            Cardinality({k \in part : SortsAfter(row, tie, k, j)}) = p]

KnnBlockWriteRealloc(nb, vectors, m, block_size, tie, start) ==
    LET n == NodeCount(vectors)
        end == BlockEnd(start, block_size, n)
        sims == BlockSims(vectors, start, end)
        top_k == TopK(m, n)
    IN  IF top_k <= 0 THEN nb
        ELSE AsArray([i \in DOMAIN nb |->
                IF i >= start /\ i < end
                THEN LET row == sims[i - start]
                         sorted_idx == AsArray(SortedIdx(row, IdxPart(row, top_k, tie), tie))
                     IN  [k \in 0 .. m - 1 |->
                            IF k < top_k THEN sorted_idx[k] ELSE 0 - 1]
                ELSE [k \in 0 .. m - 1 |-> 0 - 1]])
\* one pass of the loop body for the block starting at start
KnnBlockWrite(nb, vectors, m, block_size, tie, start) ==
    LET n == NodeCount(vectors)
        end == BlockEnd(start, block_size, n)
        sims == BlockSims(vectors, start, end)
        top_k == TopK(m, n)
    IN  IF top_k <= 0 THEN nb
        ELSE AsArray([i \in DOMAIN nb |->
                IF i >= start /\ i < end
                THEN LET row == sims[i - start]
                         sorted_idx == AsArray(SortedIdx(row, IdxPart(row, top_k, tie), tie))
                     IN  [k \in 0 .. m - 1 |->
                            IF k < top_k THEN sorted_idx[k] ELSE nb[i][k]]
                ELSE nb[i]])

KnnEmpty(vectors, m) == [i \in DOMAIN vectors |-> [k \in 0 .. m - 1 |-> 0 - 1]]

KnnStarts(n, block_size) == {s \in 0 .. n - 1 : s % block_size = 0}

RECURSIVE KnnLoop(_, _, _, _, _, _)
KnnLoop(nb, vectors, m, block_size, tie, start) ==
    IF start >= NodeCount(vectors) THEN nb
    ELSE KnnLoop(KnnBlockWrite(nb, vectors, m, block_size, tie, start),
                 vectors, m, block_size, tie, start + block_size)

\* the whole function, blocks in range(0, n, block_size) order
chunked_knn_graph(vectors, m, block_size, tie) ==
    KnnLoop(KnnEmpty(vectors, m), vectors, m, block_size, tie, 0)

LowestPending == CHOOSE s \in knn_pending : \A t \in knn_pending : s <= t

KnnStep(start) ==
    /\ neighbors' = KnnBlockWrite(neighbors, knn_vectors, knn_m, knn_block, knn_tie, start)
    /\ knn_pending' = knn_pending \ {start}
    /\ UNCHANGED <<knn_vectors, knn_m, knn_block, knn_tie>>
    /\ KnnOnly

\* the for loop: next block in ascending order
KnnLoopStep ==
    /\ knn_pending # {}
    /\ KnnStep(LowestPending)

\* blocks are independent: a later block computed before an earlier one
KnnBlockOutOfOrder ==
    \E start \in knn_pending :
        /\ start # LowestPending
        /\ KnnStep(start)

KnnDone == knn_pending = {}

\* ------------------------------------------------------- l2_normalize
\* a float divided by the norm; NaN and infinities propagate as IEEE does
DivByNorm(x, norm) ==
    IF x = NaN \/ norm = NaN THEN NaN
    ELSE IF x \in {PosInf, NegInf} THEN (IF norm = PosInf THEN NaN ELSE x)
    ELSE IF norm = PosInf THEN 0
    ELSE TruncDiv(x * Unit, norm)

l2_normalize_unguarded(vec) ==
    LET norm == Norm(vec)
    IN  IF norm <= 0 THEN None
        ELSE [i \in DOMAIN vec |-> DivByNorm(vec[i], norm)]
\* routing.py l2_normalize: None for a zero or non-finite norm, else vec / norm
l2_normalize(vec) ==
    LET norm == Norm(vec)
    IN  IF norm <= 0 \/ ~IsFinite(norm) THEN None
        ELSE [i \in DOMAIN vec |-> DivByNorm(vec[i], norm)]

\* vec / norm allocates the result; the argument array is left as it was
ArgAfterNormalize(vec) == vec

NzComponents == {0 - 4, 0 - 3, 0, 3, 4, Huge, NaN, PosInf, NegInf}

L2NormalizeCall ==
    /\ nz_pc = "call"
    /\ nz_ret' = l2_normalize(nz_arg)
    /\ nz_arg' = ArgAfterNormalize(nz_arg)
    /\ nz_pc' = "returned"
    /\ NzOnly

\* ------------------------------------------------ routing.py main loop
NoDim == 0             \* book_dim is None
NotStr == 0            \* a chunk id that is not a str
PageNotInt == 0 - 7    \* a page for which int(v) raises

to_int_page(v, default) ==
    IF v = PageNotInt THEN default
    ELSE IF v > 0 THEN v ELSE default

SecIdxOffByOne(page, sp) == page \div sp
SecIdx(page, sp) == (page - 1) \div sp

VecAdd(a, b) == [i \in DOMAIN a |-> a[i] + b[i]]

Zeros(dim) == [i \in 1 .. dim |-> 0]

\* sum / float(count)
VecMean(sum, count) == [i \in DOMAIN sum |-> TruncDiv(sum[i], count)]

\* the embeddings, pages and id kinds a package chunk can carry
ChunkKinds ==
    ({<<3, 0>>, <<0 - 3, 0>>} \X {0, 2, 3} \X {TRUE})
    \cup {<<<<0, 4>>, 2, TRUE>>,
          <<<<3, 0>>, PageNotInt, TRUE>>,
          <<<<3, 0>>, 2, FALSE>>,
          <<<<4>>, 2, TRUE>>,
          <<<<0, 0>>, 2, TRUE>>,
          <<<<0>>, 2, TRUE>>,
          <<<<>>, 2, TRUE>>}

MkChunk(kind, pos) ==
    [embedding |-> kind[1], page |-> kind[2],
     id |-> IF kind[3] THEN pos ELSE NotStr]

AggInit ==
    [book_dim |-> NoDim, book_sum |-> None, book_count |-> 0,
     max_page_seen |-> 1, section_stats |-> <<>>]

ChunkStepSharedIds(st, ch, pos, sp) ==
    LET v == ch.embedding
    IN  IF Len(v) = 0 THEN st
        ELSE IF st.book_dim # NoDim /\ Len(v) # st.book_dim
             THEN st
        ELSE
        LET dim == Len(v)
            sum0 == IF st.book_dim = NoDim THEN Zeros(dim) ELSE st.book_sum
            st1 == [st EXCEPT !.book_dim = dim, !.book_sum = sum0]
            nv == l2_normalize(v)
        IN  IF nv = None THEN st1
            ELSE
            LET page == to_int_page(ch.page, 1)
                sec_idx == SecIdx(page, sp)
                stats == st1.section_stats
                sec == IF sec_idx \in DOMAIN stats THEN stats[sec_idx]
                       ELSE [sum |-> Zeros(dim), count |-> 0,
                             page_start |-> sec_idx * sp + 1,
                             page_end |-> (sec_idx + 1) * sp,
                             chunk_ids |-> IF DOMAIN stats = {} THEN <<>>
                                           ELSE stats[CHOOSE k \in DOMAIN stats : TRUE].chunk_ids,
                             members |-> <<>>]
                sec2 == [sec EXCEPT
                            !.sum = VecAdd(sec.sum, nv),
                            !.count = sec.count + 1,
                            !.members = Append(sec.members, pos),
                            !.chunk_ids = IF ch.id # NotStr
                                          THEN Append(sec.chunk_ids, ch.id)
                                          ELSE sec.chunk_ids]
            IN  [st1 EXCEPT
                    !.book_sum = VecAdd(sum0, nv),
                    !.book_count = st1.book_count + 1,
                    !.max_page_seen = Max(st1.max_page_seen, page),
                    !.section_stats =
                        [k \in DOMAIN stats \cup {sec_idx} |->
                            IF k = sec_idx THEN sec2 ELSE stats[k]]]

ChunkStepCountsFirst(st, ch, pos, sp) ==
    LET v == ch.embedding
    IN  IF Len(v) = 0 THEN st
        ELSE IF st.book_dim # NoDim /\ Len(v) # st.book_dim
             THEN [st EXCEPT !.book_count = st.book_count + 1]
        ELSE
        LET dim == Len(v)
            sum0 == IF st.book_dim = NoDim THEN Zeros(dim) ELSE st.book_sum
            st1 == [st EXCEPT !.book_dim = dim, !.book_sum = sum0]
            nv == l2_normalize(v)
        IN  IF nv = None THEN st1
            ELSE
            LET page == to_int_page(ch.page, 1)
                sec_idx == SecIdx(page, sp)
                stats == st1.section_stats
                sec == IF sec_idx \in DOMAIN stats THEN stats[sec_idx]
                       ELSE [sum |-> Zeros(dim), count |-> 0,
                             page_start |-> sec_idx * sp + 1,
                             page_end |-> (sec_idx + 1) * sp,
                             chunk_ids |-> <<>>, members |-> <<>>]
                sec2 == [sec EXCEPT
                            !.sum = VecAdd(sec.sum, nv),
                            !.count = sec.count + 1,
                            !.members = Append(sec.members, pos),
                            !.chunk_ids = IF ch.id # NotStr
                                          THEN Append(sec.chunk_ids, ch.id)
                                          ELSE sec.chunk_ids]
            IN  [st1 EXCEPT
                    !.book_sum = VecAdd(sum0, nv),
                    !.book_count = st1.book_count + 1,
                    !.max_page_seen = Max(st1.max_page_seen, page),
                    !.section_stats =
                        [k \in DOMAIN stats \cup {sec_idx} |->
                            IF k = sec_idx THEN sec2 ELSE stats[k]]]

\* body of  for ch in chunks  (routing.py 100-150); pos is the chunk's place
\* in the package, recorded with the sums it was added to
ChunkStep(st, ch, pos, sp) ==
    LET v == ch.embedding
    IN  IF Len(v) = 0 THEN st
        ELSE IF st.book_dim # NoDim /\ Len(v) # st.book_dim
             THEN st
        ELSE
        LET dim == Len(v)
            sum0 == IF st.book_dim = NoDim THEN Zeros(dim) ELSE st.book_sum
            st1 == [st EXCEPT !.book_dim = dim, !.book_sum = sum0]
            nv == l2_normalize(v)
        IN  IF nv = None THEN st1
            ELSE
            LET page == to_int_page(ch.page, 1)
                sec_idx == SecIdx(page, sp)
                stats == st1.section_stats
                sec == IF sec_idx \in DOMAIN stats THEN stats[sec_idx]
                       ELSE [sum |-> Zeros(dim), count |-> 0,
                             page_start |-> sec_idx * sp + 1,
                             page_end |-> (sec_idx + 1) * sp,
                             chunk_ids |-> <<>>, members |-> <<>>]
                sec2 == [sec EXCEPT
                            !.sum = VecAdd(sec.sum, nv),
                            !.count = sec.count + 1,
                            !.members = Append(sec.members, pos),
                            !.chunk_ids = IF ch.id # NotStr
                                          THEN Append(sec.chunk_ids, ch.id)
                                          ELSE sec.chunk_ids]
            IN  [st1 EXCEPT
                    !.book_sum = VecAdd(sum0, nv),
                    !.book_count = st1.book_count + 1,
                    !.max_page_seen = Max(st1.max_page_seen, page),
                    !.section_stats =
                        [k \in DOMAIN stats \cup {sec_idx} |->
                            IF k = sec_idx THEN sec2 ELSE stats[k]]]

RECURSIVE SectionsFromOffByOne(_, _, _)
SectionsFromOffByOne(stats, keys, mc) ==
    IF keys = {} THEN <<>>
    ELSE LET sec_idx == CHOOSE k \in keys : \A o \in keys : k <= o
             sec == stats[sec_idx]
             rest == SectionsFromOffByOne(stats, keys \ {sec_idx}, mc)
             sec_vec == l2_normalize(VecMean(sec.sum, sec.count))
         IN  IF sec.count <= mc \/ sec_vec = None THEN rest
             ELSE <<[section_id |-> sec_idx,
                     page_start |-> sec.page_start,
                     page_end |-> sec.page_end,
                     chunk_count |-> sec.count,
                     chunk_ids |-> sec.chunk_ids,
                     vector |-> sec_vec]>> \o rest

\* the bucket first created by the chunk loop
FirstInserted(stats, keys) ==
    CHOOSE k \in keys : \A o \in keys : stats[k].members[1] <= stats[o].members[1]

RECURSIVE SectionsFromUnsorted(_, _, _)
SectionsFromUnsorted(stats, keys, mc) ==
    IF keys = {} THEN <<>>
    ELSE LET sec_idx == FirstInserted(stats, keys)
             sec == stats[sec_idx]
             rest == SectionsFromUnsorted(stats, keys \ {sec_idx}, mc)
             sec_vec == l2_normalize(VecMean(sec.sum, sec.count))
         IN  IF sec.count < mc \/ sec_vec = None THEN rest
             ELSE <<[section_id |-> sec_idx,
                     page_start |-> sec.page_start,
                     page_end |-> sec.page_end,
                     chunk_count |-> sec.count,
                     chunk_ids |-> sec.chunk_ids,
                     vector |-> sec_vec]>> \o rest

RECURSIVE SectionsFromCountingIds(_, _, _)
SectionsFromCountingIds(stats, keys, mc) ==
    IF keys = {} THEN <<>>
    ELSE LET sec_idx == CHOOSE k \in keys : \A o \in keys : k <= o
             sec == stats[sec_idx]
             rest == SectionsFromCountingIds(stats, keys \ {sec_idx}, mc)
             sec_vec == l2_normalize(VecMean(sec.sum, sec.count))
         IN  IF sec.count < mc \/ sec_vec = None THEN rest
             ELSE <<[section_id |-> sec_idx,
                     page_start |-> sec.page_start,
                     page_end |-> sec.page_end,
                     chunk_count |-> Len(sec.chunk_ids),
                     chunk_ids |-> sec.chunk_ids,
                     vector |-> sec_vec]>> \o rest

RECURSIVE SectionsFrom(_, _, _)
\* for sec_idx in sorted(section_stats.keys()) (routing.py 162-181)
SectionsFrom(stats, keys, mc) ==
    IF keys = {} THEN <<>>
    ELSE LET sec_idx == CHOOSE k \in keys : \A o \in keys : k <= o
             sec == stats[sec_idx]
             rest == SectionsFrom(stats, keys \ {sec_idx}, mc)
         IN  IF sec.count < mc THEN rest
             ELSE
             LET sec_vec == l2_normalize(VecMean(sec.sum, sec.count))
             IN  IF sec_vec = None THEN rest
                 ELSE <<[section_id |-> sec_idx,
                         page_start |-> sec.page_start,
                         page_end |-> sec.page_end,
                         chunk_count |-> sec.count,
                         chunk_ids |-> sec.chunk_ids,
                         vector |-> sec_vec]>> \o rest

\* what the package contributes after its chunk loop (routing.py 152-192)
Outcome(st, mc) ==
    IF st.book_count = 0 \/ st.book_sum = None \/ st.book_dim = NoDim
    THEN [skip |-> "no usable embeddings"]
    ELSE LET book_vec == l2_normalize(VecMean(st.book_sum, st.book_count))
         IN  IF book_vec = None THEN [skip |-> "invalid book vector"]
             ELSE [skip |-> "",
                   embedding_dimensions |-> st.book_dim,
                   chunk_count |-> st.book_count,
                   page_count |-> st.max_page_seen,
                   book_vector |-> book_vec,
                   sections |-> SectionsFrom(st.section_stats,
                                             DOMAIN st.section_stats, mc)]

RECURSIVE AggregateFrom(_, _, _, _)
AggregateFrom(st, chunks, i, sp) ==
    IF i > Len(chunks) THEN st
    ELSE AggregateFrom(ChunkStep(st, chunks[i], i, sp), chunks, i + 1, sp)

\* the outcome of a whole package given as a chunk list
Aggregate(chunks, sp, mc) == Outcome(AggregateFrom(AggInit, chunks, 1, sp), mc)

AggState ==
    [book_dim |-> book_dim, book_sum |-> book_sum, book_count |-> book_count,
     max_page_seen |-> max_page_seen, section_stats |-> section_stats]

\* one iteration of  for ch in chunks
RouteChunk ==
    /\ route_pc = "chunks"
    /\ Len(route_chunks) < MaxChunks
    /\ \E kind \in ChunkKinds :
          LET pos == Len(route_chunks) + 1
              ch == MkChunk(kind, pos)
              st == ChunkStep(AggState, ch, pos, section_pages)
          IN  /\ route_chunks' = Append(route_chunks, ch)
              /\ book_dim' = st.book_dim
              /\ book_sum' = st.book_sum
              /\ book_count' = st.book_count
              /\ max_page_seen' = st.max_page_seen
              /\ section_stats' = st.section_stats
    /\ UNCHANGED <<route_args, section_pages, min_chunks, route_pc, books_out, skipped>>
    /\ RouteOnly

\* the chunk list is exhausted: skip the package or append its book
RouteFinish ==
    /\ route_pc = "chunks"
    /\ LET out == Outcome(AggState, min_chunks)
       IN  IF Len(route_chunks) = 0
           THEN /\ skipped' = Append(skipped, "no chunks")
                /\ books_out' = books_out
           ELSE IF out.skip # ""
           THEN /\ skipped' = Append(skipped, out.skip)
                /\ books_out' = books_out
           ELSE /\ books_out' = Append(books_out, out)
                /\ skipped' = skipped
    /\ route_pc' = "done"
    /\ UNCHANGED <<route_args, section_pages, min_chunks, route_chunks, book_dim,
                   book_sum, book_count, max_page_seen, section_stats>>
    /\ RouteOnly

\* ------------------------------------------- routing.py main, batch loop
\* a .bin file read_package_bin cannot decode into a package
NotAPackage == [readable |-> FALSE, chunks |-> <<>>]

\* the embeddings and pages of the chunks of the batch's packages
PkgChunkKinds == {<<<<3, 0>>, 3, TRUE>>, <<<<0, 0>>, 2, TRUE>>}

PkgChunkLists ==
    UNION {[1 .. n -> PkgChunkKinds] : n \in 0 .. MaxPkgChunks}

\* the .bin files a directory can hold
BinFiles ==
    {NotAPackage} \cup
    {[readable |-> TRUE, chunks |-> [i \in DOMAIN kinds |-> MkChunk(kinds[i], i)]] :
        kinds \in PkgChunkLists}

\* an entry of the skipped list: f"{bin_path.name} ({reason})"
SkipEntry(name, reason) == [source_bin |-> name, reason |-> reason]

PackageResultSilent(pkg, name, sp, mc) ==
    IF pkg = NotAPackage
    THEN [books |-> <<>>, st |-> AggInit,
          skipped |-> <<SkipEntry(name, "not a supported package .bin")>>]
    ELSE IF Len(pkg.chunks) = 0
    THEN [books |-> <<>>, st |-> AggInit, skipped |-> <<SkipEntry(name, "no chunks")>>]
    ELSE LET st == AggregateFrom(AggInit, pkg.chunks, 1, sp)
             out == Outcome(st, mc)
         IN  IF out.skip = "no usable embeddings"
             THEN [books |-> <<>>, st |-> st, skipped |-> <<>>]
             ELSE IF out.skip # ""
             THEN [books |-> <<>>, st |-> st, skipped |-> <<SkipEntry(name, out.skip)>>]
             ELSE [books |-> <<[source_bin |-> name] @@ out>>, st |-> st,
                   skipped |-> <<>>]
\* one iteration of  for bin_path in bin_files  (routing.py 77-194): what it
\* appends to books_out and skipped, and the locals it leaves behind
PackageResult(pkg, name, sp, mc) ==
    IF pkg = NotAPackage
    THEN [books |-> <<>>, st |-> AggInit,
          skipped |-> <<SkipEntry(name, "not a supported package .bin")>>]
    ELSE IF Len(pkg.chunks) = 0
    THEN [books |-> <<>>, st |-> AggInit, skipped |-> <<SkipEntry(name, "no chunks")>>]
    ELSE LET st == AggregateFrom(AggInit, pkg.chunks, 1, sp)
             out == Outcome(st, mc)
         IN  IF out.skip # ""
             THEN [books |-> <<>>, st |-> st, skipped |-> <<SkipEntry(name, out.skip)>>]
             ELSE [books |-> <<[source_bin |-> name] @@ out>>, st |-> st,
                   skipped |-> <<>>]

\* the next .bin file of the directory is read and aggregated
RoutePackage ==
    /\ route_pc = "packages"
    /\ Len(bin_files) < MaxPkgs
    /\ \E pkg \in BinFiles :
          LET name == Len(bin_files) + 1
              res == PackageResult(pkg, name, section_pages, min_chunks)
          IN  /\ bin_files' = Append(bin_files, pkg)
              /\ books_out' = books_out \o res.books
              /\ skipped' = skipped \o res.skipped
              /\ route_chunks' = pkg.chunks
              /\ book_dim' = res.st.book_dim
              /\ book_sum' = res.st.book_sum
              /\ book_count' = res.st.book_count
              /\ max_page_seen' = res.st.max_page_seen
              /\ section_stats' = res.st.section_stats
    /\ UNCHANGED <<route_args, section_pages, min_chunks, route_pc, out_obj>>
    /\ BatchOnly

\* the directory holds no .bin file: SystemExit (routing.py 70-72)
RouteNoBinFiles ==
    /\ route_pc = "packages"
    /\ Len(bin_files) = 0
    /\ route_pc' = "exit"
    /\ UNCHANGED <<route_args, section_pages, min_chunks, route_chunks, book_dim,
                   book_sum, book_count, max_page_seen, section_stats, books_out,
                   skipped, bin_files, out_obj>>
    /\ BatchOnly

\* all files read: the routing file is written (routing.py 196-208)
RouteWrite ==
    /\ route_pc = "packages"
    /\ Len(bin_files) > 0
    /\ out_obj' = [section_pages |-> section_pages,
                   books_count |-> Len(books_out),
                   books |-> books_out,
                   skipped |-> skipped]
    /\ route_pc' = "written"
    /\ UNCHANGED <<route_args, section_pages, min_chunks, route_chunks, book_dim,
                   book_sum, book_count, max_page_seen, section_stats, books_out,
                   skipped, bin_files>>
    /\ BatchOnly

\* ------------------------------------------- build_ann_index.py main loop
MinM == 4              \* m = max(4, int(args.m))
MinBlockSize == 64     \* block_size = max(64, int(args.block_size))
MinEfSearch == 16      \* ef_search = max(16, int(args.ef_search))
DefaultBlockSize == 512

AnnChunkKinds ==
    ({<<3, 0>>, <<0 - 3, 0>>, <<0, 4>>, <<0, 0>>, <<>>} \X {2} \X {TRUE})
    \cup {<<<<3, 0>>, 2, FALSE>>}

\* norms[norms == 0] = 1.0 ; vectors / norms
AnnNormalizeRow(v) ==
    LET norm == Norm(v)
    IN  [i \in DOMAIN v |-> DivByNorm(v[i], IF norm = 0 THEN 1 ELSE norm)]

\* np.asarray(embeddings) followed by the row normalization, rows 0 .. n-1
AnnVectors(embs) ==
    AsArray([i \in 0 .. Len(embs) - 1 |-> AnnNormalizeRow(embs[i + 1])])

\* one iteration of  for chunk in chunks  (build_ann_index.py 211-223)
AnnReadChunk ==
    /\ ann_pc = "chunks"
    /\ Len(ann_chunks) < MaxAnnChunks
    /\ \E kind \in AnnChunkKinds :
          LET chunk == MkChunk(kind, Len(ann_chunks) + 1)
          IN  /\ ann_chunks' = Append(ann_chunks, chunk)
              /\ IF Len(chunk.embedding) = 0 \/ chunk.id = NotStr
                 THEN /\ ann_pc' = "skipped"
                      /\ UNCHANGED <<embeddings, id_map>>
                 ELSE /\ embeddings' = Append(embeddings, chunk.embedding)
                      /\ id_map' = Append(id_map, chunk.id)
                      /\ ann_pc' = ann_pc
    /\ UNCHANGED <<ann_args, ann_out>>
    /\ AnnOnly

\* a package without chunks is skipped (build_ann_index.py 203-206)
AnnNoChunks ==
    /\ ann_pc = "chunks"
    /\ Len(ann_chunks) = 0
    /\ ann_pc' = "skipped"
    /\ UNCHANGED <<ann_args, ann_chunks, embeddings, id_map, ann_out>>
    /\ AnnOnly

\* ------------------------------------------------------- build_binary
MAGIC == <<72, 78, 83, 87, 65, 78, 78, 49>>     \* b"HNSWANN1"
VERSION == 1

\* a float as the fraction num / den
Float(num, den) == [num |-> num, den |-> den]

\* the floor 1e-8 of the scale
ScaleFloor == Float(1, 100000000)

\* an ndarray of shape (n, d): rows 0 .. n-1, each a sequence of d entries
NdArray(n, d, data) == [shape |-> <<n, d>>, data |-> data]

RECURSIVE Flatten(_)
\* b"".join(parts) / tobytes(order="C") of the rows
Flatten(parts) == IF Len(parts) = 0 THEN <<>> ELSE Head(parts) \o Flatten(Tail(parts))

Rows(arr) == [i \in 1 .. arr.shape[1] |-> arr.data[i - 1]]

Byte(v) == <<"u8", v>>

\* struct "<I": four bytes, least significant first
U32(x) ==
    <<Byte(x % 256), Byte((x \div 256) % 256),
      Byte((x \div 65536) % 256), Byte((x \div 16777216) % 256)>>

\* int32 little-endian, two's complement: a negative x is 2^32 + x, whose
\* low three bytes are those of x mod 2^24 below the top byte 255
I32(x) ==
    IF x >= 0 THEN U32(x)
    ELSE LET low == x % 16777216
         IN  <<Byte(low % 256), Byte((low \div 256) % 256),
               Byte((low \div 65536) % 256), Byte(255)>>

\* int8, two's complement
I8(x) == <<Byte(x % 256)>>

\* the four bytes of the float32 encoding of x
F32(x) == <<<<"f32", x, 0>>, <<"f32", x, 1>>, <<"f32", x, 2>>, <<"f32", x, 3>>>>

RECURSIVE MaxAbsFrom(_, _)
MaxAbsFrom(rows, i) ==
    IF i > Len(rows) THEN 0
    ELSE LET rest == MaxAbsFrom(rows, i + 1)
             here == IF Len(rows[i]) = 0 THEN 0
                     ELSE CHOOSE a \in {Abs(rows[i][j]) : j \in DOMAIN rows[i]} :
                              \A j \in DOMAIN rows[i] : a >= Abs(rows[i][j])
         IN  Max(here, rest)

\* float(np.max(np.abs(vectors))) of a non-empty array
MaxAbs(arr) == MaxAbsFrom(Rows(arr), 1)

ScaleCoarseFloor(max_abs) ==
    IF max_abs > 0 THEN Float(max_abs, Unit * 127) ELSE Float(1, 1000000)
\* scale = max(max_abs / 127.0, 1e-8) ; fixed-point magnitudes are above 1e-8
Scale(max_abs) == IF max_abs > 0 THEN Float(max_abs, Unit * 127) ELSE ScaleFloor

RIntTowardZero(a, b) == IF a >= 0 THEN a \div b ELSE 0 - ((0 - a) \div b)
\* np.rint of a / b, b > 0: nearest integer, halves to the even one
RInt(a, b) ==
    LET q == Abs(a) \div b
        r == Abs(a) % b
        up == IF 2 * r > b \/ (2 * r = b /\ q % 2 = 1) THEN q + 1 ELSE q
    IN  IF a >= 0 THEN up ELSE 0 - up

Clip(x, lo, hi) == IF x < lo THEN lo ELSE IF x > hi THEN hi ELSE x

QuantizeInt8Range(x, scale) ==
    Clip(RInt(x * scale.den * 128, Unit * scale.num * 127), 0 - 128, 127)
\* np.clip(np.rint(vectors / scale), -127, 127).astype(np.int8), one entry
Quantize(x, scale) == Clip(RInt(x * scale.den, Unit * scale.num), 0 - 127, 127)

HeaderSwapped(dim, n, m, entry, ef_search, scale) ==
    [i \in 1 .. 8 |-> Byte(MAGIC[i])] \o U32(VERSION) \o U32(n) \o U32(dim)
        \o U32(m) \o U32(entry) \o U32(ef_search) \o F32(scale)
\* struct.pack("<8sIIIIIIf", MAGIC, VERSION, dim, n, m, entry, ef_search, scale)
Header(dim, n, m, entry, ef_search, scale) ==
    [i \in 1 .. 8 |-> Byte(MAGIC[i])] \o U32(VERSION) \o U32(dim) \o U32(n)
        \o U32(m) \o U32(entry) \o U32(ef_search) \o F32(scale)

\* build_binary: the payload and the scale, or the ValueError np.max raises
\* for an array without entries
build_binary(vectors, neighbor_array, entry, ef_search) ==
    LET n == vectors.shape[1]
        dim == vectors.shape[2]
        m == neighbor_array.shape[2]
    IN  IF n * dim = 0
        THEN [raised |-> "ValueError", payload |-> <<>>, scale |-> ScaleFloor]
        ELSE
        LET scale == Scale(MaxAbs(vectors))
            q_vectors == [i \in 1 .. n |->
                            Flatten([j \in 1 .. dim |->
                                I8(Quantize(vectors.data[i - 1][j], scale))])]
            norms == [i \in 1 .. n |-> F32(Float(Norm(vectors.data[i - 1]), Unit))]
            nbr_bytes == [i \in 1 .. n |->
                            Flatten([k \in 1 .. m |->
                                I32(neighbor_array.data[i - 1][k - 1])])]
        IN  [raised |-> "",
             payload |-> Header(dim, n, m, entry, ef_search, scale)
                             \o Flatten(q_vectors) \o Flatten(norms)
                             \o Flatten(nbr_bytes),
             scale |-> scale]

BinRowSets ==
    {{<<60, 0>>, <<0 - 60, 0>>, <<36, 48>>, <<0, 0>>, <<120, 0 - 90>>},
     {<<60>>, <<0 - 60>>}}

\* the matrices handed to build_binary: up to MaxBinN rows of one length
BinMatrices ==
    UNION {UNION {{NdArray(n, Len(CHOOSE r \in rs : TRUE), data) :
                        data \in [0 .. n - 1 -> rs]} : n \in 0 .. MaxBinN} :
           rs \in BinRowSets}

IdentityTie(n) == [j \in 0 .. n - 1 |-> j]

\* neighbor arrays of width m for a matrix: its k-NN graph, or all -1
BinNeighbors(vectors, m) ==
    {NdArray(vectors.shape[1], m,
             chunked_knn_graph(vectors.data, m, DefaultBlockSize,
                               IdentityTie(vectors.shape[1]))),
     NdArray(vectors.shape[1], m, KnnEmpty(vectors.data, m))}

\* a call of build_binary
BuildBinaryCall ==
    /\ bb_pc = "call"
    /\ LET r == build_binary(bb_vectors, bb_neighbors, bb_entry, bb_ef_search)
       IN  IF r.raised # ""
           THEN /\ bb_pc' = "raised"
                /\ bb_ret' = None
           ELSE /\ bb_pc' = "returned"
                /\ bb_ret' = <<r.payload, r.scale>>
    /\ UNCHANGED <<bb_vectors, bb_neighbors, bb_entry, bb_ef_search>>
    /\ BinaryOnly

\* hashlib.sha256(data).hexdigest(), as the digest of exactly these bytes
sha256_hex(data) == <<"sha256", data>>

\* base64.b64encode(data).decode("ascii"): the text that stands for the bytes
b64encode(data) == <<"b64", data>>

AnnIndexOfText(dim, m, args, binary, ids) ==
    [embedding_dimensions |-> dim,
     params |-> [m |-> m, ef_construction |-> args.ef_construction,
                 ef_search |-> args.ef_search],
     artifact_checksum |-> sha256_hex(b64encode(binary)),
     artifact_size |-> Len(b64encode(binary)),
     id_map_checksum |-> sha256_hex(ids),
     artifact_base64 |-> b64encode(binary),
     id_map |-> ids]
\* package["ann_index"] of the ready package (build_ann_index.py 266-285)
AnnIndex(dim, m, args, binary, ids) ==
    [embedding_dimensions |-> dim,
     params |-> [m |-> m, ef_construction |-> args.ef_construction,
                 ef_search |-> args.ef_search],
     artifact_checksum |-> sha256_hex(binary),
     artifact_size |-> Len(binary),
     id_map_checksum |-> sha256_hex(ids),
     artifact_base64 |-> b64encode(binary),
     id_map |-> ids]

\* all chunks read: normalize, build the graph, encode it, write the .ann.bin
\* file and the ready package (build_ann_index.py 228-288)
AnnBuild ==
    /\ ann_pc = "chunks"
    /\ Len(ann_chunks) > 0
    /\ \E tie \in Permutations0(Len(embeddings)) :
       \E vectors \in {AnnVectors(embeddings)} :
       \E nb \in {chunked_knn_graph(vectors, Max(MinM, ann_args.m),
                                     Max(MinBlockSize, ann_args.block_size), tie)} :
       \E built \in {build_binary(
                        NdArray(Len(embeddings), Len(embeddings[1]), vectors),
                        NdArray(Len(embeddings), Max(MinM, ann_args.m), nb),
                        0, Max(MinEfSearch, ann_args.ef_search))} :
          ann_out' = [node_count |-> NodeCount(vectors),
                      m |-> Max(MinM, ann_args.m),
                      vectors |-> vectors,
                      neighbors |-> nb,
                      id_map |-> id_map,
                      ann_bin |-> built.payload,
                      ann_index |-> AnnIndex(Len(embeddings[1]),
                                             Max(MinM, ann_args.m), ann_args,
                                             built.payload, id_map)]
    /\ ann_pc' = "written"
    /\ UNCHANGED <<ann_args, ann_chunks, embeddings, id_map>>
    /\ AnnOnly

\* ------------------------------------------ pdf_to_bin_inline_ann.py
PdfMaxRetries == 8     \* get_batch_embeddings(texts, api_key, max_retries = 8)

\* not text.strip(): a text of white space only (or no text at all)
IsBlank(text) == \A i \in DOMAIN text : text[i] = " "

RECURSIVE PagesFrom(_, _)
\* for i, page in enumerate(doc): pages with text, numbered from 1
PagesFrom(texts, i) ==
    IF i > Len(texts) THEN <<>>
    ELSE (IF IsBlank(texts[i]) THEN <<>>
          ELSE <<[text |-> texts[i], page_number |-> i]>>)
         \o PagesFrom(texts, i + 1)

\* extract_pages_from_pdf: the pages and len(doc), or ([], 0) when the file
\* cannot be read
extract_pages_from_pdf(pdf) ==
    IF ~pdf.opens THEN <<<<>>, 0>>
    ELSE <<PagesFrom(pdf.texts, 1), Len(pdf.texts)>>

RECURSIVE WindowsFrom(_, _, _, _, _)
\* the while loop over one page: text[start:end] every step characters
WindowsFrom(text, page_num, start, chunk_size, step) ==
    IF start >= Len(text) THEN <<>>
    ELSE LET end == start + chunk_size
             chunk_text == SubSeq(text, start + 1, Min(end, Len(text)))
             here == IF IsBlank(chunk_text) THEN <<>>
                     ELSE <<[text |-> chunk_text, page |-> page_num]>>
         IN  IF end >= Len(text) THEN here
             ELSE here \o WindowsFrom(text, page_num, start + step, chunk_size, step)

RECURSIVE ChunkPagesFrom(_, _, _, _)
ChunkPagesFrom(pages, i, chunk_size, step) ==
    IF i > Len(pages) THEN <<>>
    ELSE WindowsFrom(pages[i].text, pages[i].page_number, 0, chunk_size, step)
         \o ChunkPagesFrom(pages, i + 1, chunk_size, step)

\* chunk_text_with_page_context: the chunks, or the ValueError of a step <= 0
chunk_text_with_page_context(pages, chunk_size, overlap) ==
    LET step == chunk_size - overlap
    IN  IF step <= 0
        THEN [raised |-> "chunk_size must be greater than chunk_overlap",
              chunks |-> <<>>]
        ELSE [raised |-> "", chunks |-> ChunkPagesFrom(pages, 1, chunk_size, step)]

\* the vector the provider computes for a text
ProviderEmbedding(text) == IF text[1] = "a" THEN <<3, 0>> ELSE <<0, 4>>

\* how the provider treats the requests for one batch
ProviderBehaviours == {"ok", "flaky", "rate_limited", "down", "short", "missing", "nested"}

\* the items of a response, last text first, each with the index of its text
ProviderData(texts, kind) ==
    [i \in 1 .. Len(texts) |->
        LET j == Len(texts) + 1 - i
        IN  [index |-> j - 1,
             embedding |-> [kind |-> kind, v |-> ProviderEmbedding(texts[j])]]]

\* the answer to requests.post on the given attempt
Respond(behaviour, attempt, texts) ==
    CASE behaviour = "rate_limited" -> [status |-> "429", data |-> <<>>]
      [] behaviour = "down" -> [status |-> "RequestException", data |-> <<>>]
      [] behaviour = "flaky" /\ attempt = 0 ->
            [status |-> "RequestException", data |-> <<>>]
      [] behaviour = "short" ->
            [status |-> "200", data |-> Tail(ProviderData(texts, "flat"))]
      [] behaviour = "missing" ->
            [status |-> "200", data |-> ProviderData(texts, "none")]
      [] behaviour = "nested" ->
            [status |-> "200", data |-> ProviderData(texts, "nested")]
      [] OTHER -> [status |-> "200", data |-> ProviderData(texts, "flat")]

\* sorted(data, key = index) followed by item.get("embedding")
EmbeddingsByIndex(data) ==
    [i \in 1 .. Len(data) |->
        (CHOOSE k \in DOMAIN data : data[k].index = i - 1) ]

RECURSIVE PdfAttempt(_, _, _)
\* the body of  for attempt in range(max_retries)  from the given attempt on
PdfAttempt(texts, behaviour, attempt) ==
    IF attempt >= PdfMaxRetries THEN None
    ELSE LET response == Respond(behaviour, attempt, texts)
         IN  CASE response.status = "429" -> PdfAttempt(texts, behaviour, attempt + 1)
               [] response.status = "RequestException" ->
                     IF attempt < PdfMaxRetries - 1
                     THEN PdfAttempt(texts, behaviour, attempt + 1)
                     ELSE None
               [] OTHER ->
                     IF Len(response.data) # Len(texts) THEN None
                     ELSE LET order == EmbeddingsByIndex(response.data)
                              embs == [i \in DOMAIN order |->
                                          response.data[order[i]].embedding]
                          IN  IF \E i \in DOMAIN embs : embs[i].kind = "none"
                              THEN None
                              ELSE embs

\* get_batch_embeddings of pdf_to_bin_inline_ann.py: the embeddings or None
PdfBatchEmbeddings(texts, behaviour) == PdfAttempt(texts, behaviour, 0)

\* len(embedding) of an embedding as the provider sent it
EmbeddingLen(e) == IF e.kind = "nested" THEN 1 ELSE Len(e.v)

\* one iteration of  for i in range(0, len(raw_chunks), batch_size): the
\* chunks the batch at position i adds; a failed batch adds nothing
EmbedBatch(chunks, i, batch_size, behaviour, document_id) ==
    LET batch_end == Min(i + batch_size, Len(chunks))
        current_batch == SubSeq(chunks, i + 1, batch_end)
        texts == [j \in DOMAIN current_batch |-> current_batch[j].text]
    IN  LET embs == AsArray(PdfBatchEmbeddings(texts, behaviour))
        IN  IF Len(embs) > 0 /\ Len(embs) = Len(current_batch)
            THEN [j \in DOMAIN embs |->
                    [id |-> <<document_id, i + j - 1>>,
                     text |-> current_batch[j].text,
                     embedding |-> embs[j],
                     page |-> current_batch[j].page,
                     chunk_index |-> i + j - 1,
                     embedding_dimensions |-> EmbeddingLen(embs[j])]]
            ELSE <<>>

\* build_ann_binary packs the bytes build_binary packs
build_ann_binary(vectors, neighbor_array, entry, ef_search) ==
    build_binary(vectors, neighbor_array, entry, ef_search)

\* verify_bin: the error it raises on the decoded package, "" when it passes
verify_bin(obj) ==
    IF "format_version" \notin DOMAIN obj \/ "chunks" \notin DOMAIN obj
    THEN "Decoded .bin JSON does not look like a package"
    ELSE IF "ann_index" \notin DOMAIN obj THEN "ann_index missing in decoded package"
    ELSE IF "artifact_base64" \notin DOMAIN obj.ann_index
         THEN "ann_index.artifact_base64 missing"
    ELSE IF "id_map" \notin DOMAIN obj.ann_index THEN "ann_index.id_map missing"
    ELSE ""

\* package_data of process_pdf (316-356)
PackageData(name, args, pages_total, chunks, dim, m, ann_binary) ==
    LET n == Len(chunks)
        id_map_of == [i \in 1 .. n |-> chunks[i].id]
    IN  [format_version |-> "1.1",
         document_metadata |->
            [id |-> name, filename |-> name, page_count |-> pages_total,
             chunk_count |-> n,
             chunk_settings |-> [chunk_size |-> args.chunk_size,
                                 chunk_overlap |-> args.chunk_overlap]],
         chunks |-> [i \in 1 .. n |->
                       [id |-> chunks[i].id,
                        text |-> chunks[i].text,
                        embedding |-> chunks[i].embedding.v,
                        page |-> chunks[i].page,
                        chunk_index |-> chunks[i].chunk_index,
                        embedding_dimensions |-> chunks[i].embedding_dimensions]],
         ann_index |->
            [embedding_dimensions |-> dim,
             params |-> [m |-> m, ef_construction |-> args.ef_construction,
                         ef_search |-> args.ef_search],
             artifact_checksum |-> sha256_hex(ann_binary),
             artifact_size |-> Len(ann_binary),
             id_map_checksum |-> sha256_hex(id_map_of),
             artifact_base64 |-> b64encode(ann_binary),
             id_map |-> id_map_of]]

\* the PDF files a directory may hold: unreadable, a blank page, one page of
\* text, a blank page before a page of text
PdfDocs ==
    {[opens |-> FALSE, texts |-> <<>>],
     [opens |-> TRUE, texts |-> << <<" ">> >>],
     [opens |-> TRUE, texts |-> << <<"a", "b">> >>],
     [opens |-> TRUE, texts |-> << <<" ">>, <<"a", "b", "a">> >>]}

PdfArgs ==
    {[batch_size |-> bs, chunk_size |-> cs[1], chunk_overlap |-> cs[2],
      m |-> 24, ef_construction |-> 128, ef_search |-> ef,
      block_size |-> DefaultBlockSize] :
        bs \in {1, 2}, cs \in {<<2, 1>>, <<1, 1>>}, ef \in {8, 80}}

\* the codes get_random_code may draw
ShardCodes == 0 .. MaxPdfs

\* the current PDF is done: back to  for pdf in pdfs
PdfNextFile ==
    /\ pdf_pc' = "loop"
    /\ total_pages' = 0
    /\ raw_chunks' = <<>>
    /\ processed_chunks' = <<>>
    /\ batch_i' = 0

\* the next PDF: process_pdf up to the chunk list (251-260). None without a
\* page of text; the ValueError of the chunking is caught in main (434-439)
PdfOpen ==
    /\ pdf_pc = "loop"
    /\ Len(pdfs) < MaxPdfs
    /\ \E pdf \in PdfDocs :
        \E extracted \in {extract_pages_from_pdf(pdf)} :
        \E chunked \in {chunk_text_with_page_context(extracted[1],
                            pdf_args.chunk_size, pdf_args.chunk_overlap)} :
            /\ pdfs' = Append(pdfs, pdf)
            /\ IF Len(extracted[1]) = 0
               THEN /\ PdfNextFile
                    /\ UNCHANGED mapping_files
               ELSE IF chunked.raised # ""
               THEN /\ PdfNextFile
                    /\ mapping_files' =
                         Append(mapping_files,
                                [pdf |-> Len(pdfs) + 1, error |-> chunked.raised])
               ELSE /\ pdf_pc' = "embed"
                    /\ total_pages' = extracted[2]
                    /\ raw_chunks' = chunked.chunks
                    /\ processed_chunks' = <<>>
                    /\ batch_i' = 0
                    /\ UNCHANGED mapping_files
    /\ UNCHANGED <<pdf_args, used_codes, shards, file_mapping>>
    /\ PdfOnly

\* one batch of the embedding loop (262-289)
PdfEmbedBatch ==
    /\ pdf_pc = "embed"
    /\ batch_i < Len(raw_chunks)
    /\ \E behaviour \in ProviderBehaviours :
          processed_chunks' =
              processed_chunks \o EmbedBatch(raw_chunks, batch_i, pdf_args.batch_size,
                                             behaviour, Len(pdfs))
    /\ batch_i' = batch_i + pdf_args.batch_size
    /\ UNCHANGED <<pdf_args, pdfs, used_codes, mapping_files, shards, file_mapping,
                   pdf_pc, total_pages, raw_chunks>>
    /\ PdfOnly

\* after the last batch no chunk has a vector: None (292-294)
PdfNoEmbeddings ==
    /\ pdf_pc = "embed"
    /\ batch_i >= Len(raw_chunks)
    /\ Len(processed_chunks) = 0
    /\ PdfNextFile
    /\ UNCHANGED <<pdf_args, pdfs, used_codes, mapping_files, shards, file_mapping>>
    /\ PdfOnly

\* the shapes of the embeddings np.asarray has to put into one array
EmbeddingKinds ==
    {processed_chunks[i].embedding.kind : i \in DOMAIN processed_chunks}

\* np.asarray raises on embeddings of different nesting; caught in main
PdfRaggedMatrix ==
    /\ pdf_pc = "embed"
    /\ batch_i >= Len(raw_chunks)
    /\ Cardinality(EmbeddingKinds) > 1
    /\ mapping_files' =
         Append(mapping_files,
                [pdf |-> Len(pdfs),
                 error |-> "setting an array element with a sequence"])
    /\ PdfNextFile
    /\ UNCHANGED <<pdf_args, pdfs, used_codes, shards, file_mapping>>
    /\ PdfOnly

\* emb.ndim != 2: None (296-299)
PdfInvalidMatrix ==
    /\ pdf_pc = "embed"
    /\ batch_i >= Len(raw_chunks)
    /\ EmbeddingKinds = {"nested"}
    /\ PdfNextFile
    /\ UNCHANGED <<pdf_args, pdfs, used_codes, mapping_files, shards, file_mapping>>
    /\ PdfOnly

\* normalize, build the graph and the artifact, write and verify the shard,
\* return the mapping entry (301-380, 432-433)
PdfBuild ==
    /\ pdf_pc = "embed"
    /\ batch_i >= Len(raw_chunks)
    /\ EmbeddingKinds = {"flat"}
    /\ \E code \in ShardCodes \ used_codes,
          tie \in Permutations0(Len(processed_chunks)) :
       \E emb \in {AnnVectors([i \in DOMAIN processed_chunks |->
                                   processed_chunks[i].embedding.v])} :
       \E nb \in {chunked_knn_graph(emb, Max(MinM, pdf_args.m),
                                     Max(MinBlockSize, pdf_args.block_size), tie)} :
       \E built \in {build_ann_binary(
                        NdArray(Len(processed_chunks),
                                Len(processed_chunks[1].embedding.v), emb),
                        NdArray(Len(processed_chunks), Max(MinM, pdf_args.m), nb),
                        0, Max(MinEfSearch, pdf_args.ef_search))} :
       \E package_data \in {PackageData(Len(pdfs), pdf_args, total_pages,
                                        processed_chunks,
                                        Len(processed_chunks[1].embedding.v),
                                        Max(MinM, pdf_args.m), built.payload)} :
       \E verified \in {verify_bin(package_data)} :
            /\ used_codes' = used_codes \cup {code}
            /\ shards' = Append(shards, [shard |-> code, pdf |-> Len(pdfs),
                                         package |-> package_data])
            /\ mapping_files' =
                 IF verified # ""
                 THEN Append(mapping_files, [pdf |-> Len(pdfs), error |-> verified])
                 ELSE Append(mapping_files,
                             [pdf |-> Len(pdfs),
                              document_id |-> package_data.document_metadata.id,
                              chunk_count |-> Len(processed_chunks),
                              embedding_dimensions |->
                                  package_data.ann_index.embedding_dimensions,
                              shard |-> code])
    /\ PdfNextFile
    /\ UNCHANGED <<pdf_args, pdfs, file_mapping>>
    /\ PdfOnly

\* no PDF in the directory: SystemExit (main 402-404)
PdfNoPdfs ==
    /\ pdf_pc = "loop"
    /\ Len(pdfs) = 0
    /\ pdf_pc' = "exit"
    /\ UNCHANGED <<pdf_args, pdfs, used_codes, mapping_files, shards, file_mapping,
                   total_pages, raw_chunks, processed_chunks, batch_i>>
    /\ PdfOnly

\* json.dump(mapping) into file_mapping.json (main 441-443)
PdfSaveMapping ==
    /\ pdf_pc = "loop"
    /\ Len(pdfs) > 0
    /\ file_mapping' = [saved |-> TRUE, files |-> mapping_files]
    /\ pdf_pc' = "saved"
    /\ UNCHANGED <<pdf_args, pdfs, used_codes, mapping_files, shards,
                   total_pages, raw_chunks, processed_chunks, batch_i>>
    /\ PdfOnly

\* -------------------------------- bin_to_routing_with_semantic_labels.py
SemMaxRetries == 7     \* get_batch_embeddings(texts, api_key, model, max_retries = 7)

\* the first two of the labels of DEFAULT_LABELS
DEFAULT_LABELS == <<"General Surgery", "Trauma and Emergency">>

\* the text of a label as it is sent to the provider
LabelText(label) == <<label>>

\* f"Book: {book_name}\nSection: {title}\nContent: {preview}"
Prompt(book, section) == <<book.book_name, section.title, section.summary_preview>>

\* the vector the provider computes for a text; it depends on the last part
SemProviderEmbedding(text) ==
    LET last == text[Len(text)]
    IN  CASE last \in {"General Surgery", "incision"} -> <<3, 0>>
          [] last \in {"Trauma and Emergency", "fracture"} -> <<0, 4>>
          [] OTHER -> <<3, 3>>

RECURSIVE SectionPromptsFrom(_, _)
\* section_prompts with section_refs: one entry per section, book by book
SectionPromptsFrom(books, bi) ==
    IF bi > Len(books) THEN <<>>
    ELSE [si \in DOMAIN books[bi].sections |->
             [text |-> Prompt(books[bi], books[bi].sections[si]),
              bi |-> bi, si |-> si]]
         \o SectionPromptsFrom(books, bi + 1)

SectionPrompts(books) == SectionPromptsFrom(books, 1)

ArgMaxLast(row) ==
    CHOOSE k \in DOMAIN row :
        /\ \A j \in DOMAIN row : row[j] <= row[k]
        /\ \A j \in DOMAIN row : j > k => row[j] < row[k]
\* np.argmax: the first position of the largest entry
ArgMax(row) ==
    CHOOSE k \in DOMAIN row :
        /\ \A j \in DOMAIN row : row[j] <= row[k]
        /\ \A j \in DOMAIN row : j < k => row[j] < row[k]

\* sims = section_vecs @ label_vecs.T, then the label and the score of every
\* section (216-223)
WithSemanticLabels(books, labels, section_vecs, label_matrix) ==
    LET refs == SectionPrompts(books)
        PositionOf(bi, si) == CHOOSE i \in DOMAIN refs : refs[i].bi = bi /\ refs[i].si = si
        Sims(i) == [k \in DOMAIN label_matrix |-> Dot(section_vecs[i], label_matrix[k])]
    IN  [bi \in DOMAIN books |->
            [books[bi] EXCEPT !.sections =
                [si \in DOMAIN books[bi].sections |->
                    LET row == AsArray(Sims(PositionOf(bi, si)))
                        sec == books[bi].sections[si]
                    IN  [key \in DOMAIN sec \cup {"semantic_label", "semantic_score"} |->
                            CASE key = "semantic_label" -> labels[ArgMax(row)]
                              [] key = "semantic_score" -> row[ArgMax(row)]
                              [] OTHER -> sec[key]]]]]

\* a section of books_out before the semantic step
SemSection(title, preview) ==
    [title |-> title, summary_preview |-> preview, chunk_count |-> 2]

\* the books_out lists the aggregation may leave
SemBookLists ==
    {<<>>,
     <<[book_name |-> "b1", source_bin |-> <<"b1", ".bin">>, sections |-> <<>>]>>,
     <<[book_name |-> "b1", source_bin |-> <<"b1", ".bin">>,
        sections |-> <<SemSection("Pages 1-20", "fracture"),
                       SemSection("Pages 21-40", "incision")>>]>>,
     <<[book_name |-> "b1", source_bin |-> <<"b1", ".bin">>,
        sections |-> <<SemSection("Pages 1-20", "burn")>>],
       [book_name |-> "b2", source_bin |-> <<"b2", ".bin">>,
        sections |-> <<SemSection("Pages 1-20", "fracture")>>]>>}

\* batch_size = max(1, int(args.semantic_batch_size))
SemBatchSize == Max(1, sem_args.semantic_batch_size)

\* the texts of the batched_embed call in progress
SemTexts ==
    IF sem_pc = "labels"
    THEN [k \in DOMAIN DEFAULT_LABELS |-> LabelText(DEFAULT_LABELS[k])]
    ELSE LET refs == SectionPrompts(sem_books)
         IN  [i \in DOMAIN refs |-> refs[i].text]

\* main 398-415 up to the first request: without labels, or without books,
\* the run goes on to write; without a key it exits
SemStart ==
    /\ sem_pc = "start"
    /\ IF ~sem_args.semantic_enabled \/ Len(sem_books) = 0
       THEN /\ sem_pc' = "write"
            /\ UNCHANGED semantic_call_info
       ELSE IF ~sem_args.api_key
       THEN /\ sem_pc' = "exit"
            /\ UNCHANGED semantic_call_info
       ELSE IF Len(SectionPrompts(sem_books)) = 0
       THEN /\ sem_pc' = "write"
            /\ semantic_call_info' =
                 [enabled |-> TRUE, label_count |-> 0, section_count |-> 0]
       ELSE /\ sem_pc' = "labels"
            /\ UNCHANGED semantic_call_info
    /\ UNCHANGED <<sem_args, sem_books, sem_attempt, sem_i, sem_vectors, label_vecs,
                   written_files, sem_error>>
    /\ SemOnly

\* an attempt answered with HTTP 429: the next attempt, and after the last
\* one the statement behind the loop (142-145, 163)
SemRateLimited ==
    /\ sem_pc \in {"labels", "sections"}
    /\ IF sem_attempt < SemMaxRetries - 1
       THEN /\ sem_attempt' = sem_attempt + 1
            /\ UNCHANGED <<sem_pc, sem_error>>
       ELSE /\ sem_pc' = "raised"
            /\ sem_error' = "RuntimeError: Unreachable"
            /\ UNCHANGED sem_attempt
    /\ UNCHANGED <<sem_args, sem_books, sem_i, sem_vectors, label_vecs,
                   semantic_call_info, written_files>>
    /\ SemOnly

\* an attempt that raises: retried, and re-raised on the last attempt; the
\* exception leaves batched_embed, build_semantic_labels and main (147-161)
SemRequestFailed ==
    /\ sem_pc \in {"labels", "sections"}
    /\ \E err \in {"HTTPError", "ValueError: Invalid embedding response shape"} :
          IF sem_attempt = SemMaxRetries - 1
          THEN /\ sem_pc' = "raised"
               /\ sem_error' = err
               /\ UNCHANGED sem_attempt
          ELSE /\ sem_attempt' = sem_attempt + 1
               /\ UNCHANGED <<sem_pc, sem_error>>
    /\ UNCHANGED <<sem_args, sem_books, sem_i, sem_vectors, label_vecs,
                   semantic_call_info, written_files>>
    /\ SemOnly

\* an attempt that returns the embeddings of the batch: batched_embed
\* normalizes and keeps them (168-177); after the last batch of the labels
\* the sections follow, after the last batch of the sections the labels are
\* assigned (207-225, 416-420)
SemEmbedded ==
    /\ sem_pc \in {"labels", "sections"}
    /\ \E texts \in {SemTexts} :
       \E batch \in {SubSeq(texts, sem_i + 1, Min(sem_i + SemBatchSize, Len(texts)))} :
       \E arr \in {[j \in DOMAIN batch |->
                       AnnNormalizeRow(SemProviderEmbedding(batch[j]))]} :
          IF sem_i + SemBatchSize < Len(texts)
          THEN /\ sem_vectors' = sem_vectors \o arr
               /\ sem_i' = sem_i + SemBatchSize
               /\ UNCHANGED <<sem_pc, sem_books, label_vecs, semantic_call_info>>
          ELSE IF sem_pc = "labels"
          THEN /\ label_vecs' = sem_vectors \o arr
               /\ sem_vectors' = <<>>
               /\ sem_i' = 0
               /\ sem_pc' = "sections"
               /\ UNCHANGED <<sem_books, semantic_call_info>>
          ELSE /\ sem_books' = WithSemanticLabels(sem_books, DEFAULT_LABELS,
                                                  sem_vectors \o arr, label_vecs)
               /\ semantic_call_info' =
                    [enabled |-> TRUE, label_count |-> Len(DEFAULT_LABELS),
                     section_count |-> Len(texts)]
               /\ sem_vectors' = <<>>
               /\ sem_i' = 0
               /\ sem_pc' = "write"
               /\ UNCHANGED label_vecs
    /\ sem_attempt' = 0
    /\ UNCHANGED <<sem_args, written_files, sem_error>>
    /\ SemOnly

\* for book in books_out: one companion file per book (423-443)
SemWrite ==
    /\ sem_pc = "write"
    /\ written_files' =
         [b \in DOMAIN sem_books |->
             [out_name |-> <<sem_books[b].source_bin[1], "_comp.bin">>,
              format_version |-> "route-1.1",
              books_count |-> 1,
              books |-> <<sem_books[b]>>,
              semantic |-> semantic_call_info,
              skipped |-> skipped]]
    /\ sem_pc' = "done"
    /\ UNCHANGED <<sem_args, sem_books, sem_attempt, sem_i, sem_vectors, label_vecs,
                   semantic_call_info, sem_error>>
    /\ SemOnly

\* ------------------------------------ the shard verify_bin reads back
\* what may have happened to the bytes of the artifact since they were
\* built: nothing, another magic, another version, a byte lost, a byte added
ArtifactDamage == {"none", "magic", "version", "truncated", "extended"}

Damaged(data, damage) ==
    CASE damage = "magic" -> [i \in DOMAIN data |-> IF i = 8 THEN Byte(50) ELSE data[i]]
      [] damage = "version" -> [i \in DOMAIN data |-> IF i = 9 THEN Byte(2) ELSE data[i]]
      [] damage = "truncated" -> SubSeq(data, 1, Len(data) - 1)
      [] damage = "extended" -> Append(data, Byte(0))
      [] OTHER -> data

\* the artifacts build_ann_binary writes for the matrices with rows
VerifyArtifacts ==
    {build_ann_binary(v, NdArray(v.shape[1], 1,
                                 chunked_knn_graph(v.data, 1, DefaultBlockSize,
                                                   IdentityTie(v.shape[1]))),
                      0, MinEfSearch).payload :
        v \in {b \in BinMatrices : b.shape[1] > 0}}

\* the parts of the decoded JSON object verify_bin asks for
ShardShapes == {"package", "no_chunks", "no_ann_index", "no_artifact", "no_id_map"}

\* json.loads(gzip.decompress(raw)) of a shard with the artifact ann_binary
ShardObject(shape, ann_binary) ==
    CASE shape = "no_chunks" ->
            [format_version |-> "1.1",
             ann_index |-> [artifact_base64 |-> b64encode(ann_binary),
                            id_map |-> <<>>]]
      [] shape = "no_ann_index" -> [format_version |-> "1.1", chunks |-> <<>>]
      [] shape = "no_artifact" ->
            [format_version |-> "1.1", chunks |-> <<>>,
             ann_index |-> [id_map |-> <<>>]]
      [] shape = "no_id_map" ->
            [format_version |-> "1.1", chunks |-> <<>>,
             ann_index |-> [artifact_base64 |-> b64encode(ann_binary)]]
      [] OTHER ->
            [format_version |-> "1.1", chunks |-> <<>>,
             ann_index |-> [artifact_base64 |-> b64encode(ann_binary),
                            id_map |-> <<>>]]

\* the shards verify_bin may find on disk
ShardFiles ==
    {ShardObject(shape, Damaged(a, damage)) :
        shape \in ShardShapes, a \in VerifyArtifacts, damage \in ArtifactDamage}

\* verify_bin(bin_path): returns, or raises the ValueError of the first part
\* it misses (214-228)
VerifyBinCall ==
    /\ vb_pc = "call"
    /\ \E r \in {verify_bin(vb_file)} :
          /\ vb_ret' = r
          /\ vb_pc' = IF r = "" THEN "returned" ELSE "raised"
    /\ UNCHANGED vb_file
    /\ VerifyOnly

\* ------------------- chunk_text_with_page_context, statement by statement
\* the three copies of the function: only the first one checks the step
ChunkScripts ==
    {"pdf_to_bin_inline_ann", "pdf_to_embeddings_and_inline_ann", "voyage"}

\* text[a:b] of Python: a negative index counts from the end
PySlice(text, a, b) ==
    LET lo == IF a < 0 THEN Max(0, Len(text) + a) ELSE Min(a, Len(text))
        hi == IF b < 0 THEN Max(0, Len(text) + b) ELSE Min(b, Len(text))
    IN  IF lo < hi THEN SubSeq(text, lo + 1, hi) ELSE <<>>

\* the texts of the pages extract_pages_from_pdf keeps: none is blank
ChunkPageTexts == {<<"a">>, <<"a", "b", "c">>, <<"a", " ", "b">>}

ChunkPageLists ==
    UNION {{[i \in 1 .. n |-> [text |-> texts[i], page_number |-> i]] :
                texts \in [1 .. n -> ChunkPageTexts]} : n \in 0 .. MaxChunkPages}

\* (chunk_size, overlap): a positive step, no step, a step backwards
ChunkSettings == {<<2, 1>>, <<3, 0>>, <<1, 1>>, <<1, 2>>}

\* the call: step = chunk_size - overlap, tested in pdf_to_bin_inline_ann.py
\* only (94-96)
ChunkEnter ==
    /\ ck_pc = "call"
    /\ IF ck_script = "pdf_to_bin_inline_ann" /\ ck_chunk_size - ck_overlap <= 0
       THEN ck_pc' = "raised"
       ELSE ck_pc' = "page"
    /\ UNCHANGED <<ck_script, ck_pages, ck_chunk_size, ck_overlap, ck_page, ck_start,
                   ck_chunks>>
    /\ ChunkOnly

\* for page in pages: the next page with start = 0, or return chunks
ChunkNextPage ==
    /\ ck_pc = "page"
    /\ IF ck_page >= Len(ck_pages)
       THEN /\ ck_pc' = "returned"
            /\ UNCHANGED <<ck_page, ck_start>>
       ELSE /\ ck_pc' = "window"
            /\ ck_page' = ck_page + 1
            /\ ck_start' = 0
    /\ UNCHANGED <<ck_script, ck_pages, ck_chunk_size, ck_overlap, ck_chunks>>
    /\ ChunkOnly

\* one test and one pass of  while start < len(text)
ChunkWindow ==
    /\ ck_pc = "window"
    /\ Len(ck_chunks) < MaxWindows
    /\ ck_start > 0 - MaxWindows
    /\ LET text == ck_pages[ck_page].text
           end == ck_start + ck_chunk_size
           chunk_text == PySlice(text, ck_start, end)
       IN  IF ck_start >= Len(text)
           THEN /\ ck_pc' = "page"
                /\ UNCHANGED <<ck_start, ck_chunks>>
           ELSE /\ ck_chunks' =
                     IF IsBlank(chunk_text) THEN ck_chunks
                     ELSE Append(ck_chunks,
                                 [text |-> chunk_text,
                                  page |-> ck_pages[ck_page].page_number])
                /\ IF end >= Len(text)
                   THEN /\ ck_pc' = "page"
                        /\ UNCHANGED ck_start
                   ELSE /\ ck_start' = ck_start + (ck_chunk_size - ck_overlap)
                        /\ UNCHANGED ck_pc
    /\ UNCHANGED <<ck_script, ck_pages, ck_chunk_size, ck_overlap, ck_page>>
    /\ ChunkOnly

\* ------------------------------------------------------ specifications
\* chunked_knn_graph called on some vectors, m, block_size; the rest idle
InitKnn ==
    /\ knn_vectors \in UNION {[0 .. n - 1 -> KnnVecSet] : n \in 0 .. MaxN}
    /\ knn_m \in 1 .. MaxM
    /\ knn_block \in 1 .. MaxBlock
    /\ knn_tie \in Permutations0(NodeCount(knn_vectors))
    /\ neighbors = KnnEmpty(knn_vectors, knn_m)
    /\ knn_pending = KnnStarts(NodeCount(knn_vectors), knn_block)
    /\ nz_arg = <<>>
    /\ nz_ret = None
    /\ nz_pc = "idle"
    /\ route_args = [section_pages |-> 20, min_chunks_per_section |-> 1]
    /\ section_pages = 20
    /\ min_chunks = 1
    /\ route_chunks = <<>>
    /\ book_dim = NoDim
    /\ book_sum = None
    /\ book_count = 0
    /\ max_page_seen = 1
    /\ section_stats = <<>>
    /\ route_pc = "idle"
    /\ books_out = <<>>
    /\ skipped = <<>>
    /\ ann_args = [m |-> 24, block_size |-> DefaultBlockSize,
                   ef_construction |-> 128, ef_search |-> 80]
    /\ ann_chunks = <<>>
    /\ embeddings = <<>>
    /\ id_map = <<>>
    /\ ann_pc = "idle"
    /\ ann_out = <<>>
    /\ bin_files = <<>>
    /\ out_obj = None
    /\ bb_vectors = [shape |-> <<0, 0>>, data |-> <<>>]
    /\ bb_neighbors = [shape |-> <<0, 0>>, data |-> <<>>]
    /\ bb_entry = 0
    /\ bb_ef_search = 16
    /\ bb_ret = None
    /\ bb_pc = "idle"
    /\ pdf_args = [batch_size |-> 100, chunk_size |-> 1000, chunk_overlap |-> 200,
                   m |-> 24, ef_construction |-> 128, ef_search |-> 80,
                   block_size |-> DefaultBlockSize]
    /\ pdfs = <<>>
    /\ used_codes = {}
    /\ mapping_files = <<>>
    /\ shards = <<>>
    /\ file_mapping = [saved |-> FALSE, files |-> <<>>]
    /\ pdf_pc = "idle"
    /\ total_pages = 0
    /\ raw_chunks = <<>>
    /\ processed_chunks = <<>>
    /\ batch_i = 0
    /\ sem_args = [semantic_enabled |-> FALSE, api_key |-> FALSE,
                   semantic_batch_size |-> 64]
    /\ sem_books = <<>>
    /\ sem_pc = "idle"
    /\ sem_attempt = 0
    /\ sem_i = 0
    /\ sem_vectors = <<>>
    /\ label_vecs = <<>>
    /\ semantic_call_info = [enabled |-> FALSE, label_count |-> 0, section_count |-> 0]
    /\ written_files = <<>>
    /\ sem_error = ""
    /\ vb_file = <<>>
    /\ vb_ret = ""
    /\ vb_pc = "idle"
    /\ ck_script = "voyage"
    /\ ck_pages = <<>>
    /\ ck_chunk_size = 1000
    /\ ck_overlap = 200
    /\ ck_page = 0
    /\ ck_start = 0
    /\ ck_chunks = <<>>
    /\ ck_pc = "idle"

\* l2_normalize called on some vector; the rest idle
InitNorm ==
    /\ knn_vectors = <<>>
    /\ knn_m = 1
    /\ knn_block = 1
    /\ knn_tie = <<>>
    /\ neighbors = <<>>
    /\ knn_pending = {}
    /\ nz_arg \in UNION {[1 .. d -> NzComponents] : d \in 1 .. MaxDim}
    /\ nz_ret = None
    /\ nz_pc = "call"
    /\ route_args = [section_pages |-> 20, min_chunks_per_section |-> 1]
    /\ section_pages = 20
    /\ min_chunks = 1
    /\ route_chunks = <<>>
    /\ book_dim = NoDim
    /\ book_sum = None
    /\ book_count = 0
    /\ max_page_seen = 1
    /\ section_stats = <<>>
    /\ route_pc = "idle"
    /\ books_out = <<>>
    /\ skipped = <<>>
    /\ ann_args = [m |-> 24, block_size |-> DefaultBlockSize,
                   ef_construction |-> 128, ef_search |-> 80]
    /\ ann_chunks = <<>>
    /\ embeddings = <<>>
    /\ id_map = <<>>
    /\ ann_pc = "idle"
    /\ ann_out = <<>>
    /\ bin_files = <<>>
    /\ out_obj = None
    /\ bb_vectors = [shape |-> <<0, 0>>, data |-> <<>>]
    /\ bb_neighbors = [shape |-> <<0, 0>>, data |-> <<>>]
    /\ bb_entry = 0
    /\ bb_ef_search = 16
    /\ bb_ret = None
    /\ bb_pc = "idle"
    /\ pdf_args = [batch_size |-> 100, chunk_size |-> 1000, chunk_overlap |-> 200,
                   m |-> 24, ef_construction |-> 128, ef_search |-> 80,
                   block_size |-> DefaultBlockSize]
    /\ pdfs = <<>>
    /\ used_codes = {}
    /\ mapping_files = <<>>
    /\ shards = <<>>
    /\ file_mapping = [saved |-> FALSE, files |-> <<>>]
    /\ pdf_pc = "idle"
    /\ total_pages = 0
    /\ raw_chunks = <<>>
    /\ processed_chunks = <<>>
    /\ batch_i = 0
    /\ sem_args = [semantic_enabled |-> FALSE, api_key |-> FALSE,
                   semantic_batch_size |-> 64]
    /\ sem_books = <<>>
    /\ sem_pc = "idle"
    /\ sem_attempt = 0
    /\ sem_i = 0
    /\ sem_vectors = <<>>
    /\ label_vecs = <<>>
    /\ semantic_call_info = [enabled |-> FALSE, label_count |-> 0, section_count |-> 0]
    /\ written_files = <<>>
    /\ sem_error = ""
    /\ vb_file = <<>>
    /\ vb_ret = ""
    /\ vb_pc = "idle"
    /\ ck_script = "voyage"
    /\ ck_pages = <<>>
    /\ ck_chunk_size = 1000
    /\ ck_overlap = 200
    /\ ck_page = 0
    /\ ck_start = 0
    /\ ck_chunks = <<>>
    /\ ck_pc = "idle"

\* routing.py main at the start of a package; the rest idle
InitRoute ==
    /\ knn_vectors = <<>>
    /\ knn_m = 1
    /\ knn_block = 1
    /\ knn_tie = <<>>
    /\ neighbors = <<>>
    /\ knn_pending = {}
    /\ nz_arg = <<>>
    /\ nz_ret = None
    /\ nz_pc = "idle"
    /\ route_args \in [section_pages : {0, 2}, min_chunks_per_section : {0, 2}]
    /\ section_pages = Max(1, route_args.section_pages)
    /\ min_chunks = Max(1, route_args.min_chunks_per_section)
    /\ route_chunks = <<>>
    /\ book_dim = NoDim
    /\ book_sum = None
    /\ book_count = 0
    /\ max_page_seen = 1
    /\ section_stats = <<>>
    /\ route_pc = "chunks"
    /\ books_out = <<>>
    /\ skipped = <<>>
    /\ ann_args = [m |-> 24, block_size |-> DefaultBlockSize,
                   ef_construction |-> 128, ef_search |-> 80]
    /\ ann_chunks = <<>>
    /\ embeddings = <<>>
    /\ id_map = <<>>
    /\ ann_pc = "idle"
    /\ ann_out = <<>>
    /\ bin_files = <<>>
    /\ out_obj = None
    /\ bb_vectors = [shape |-> <<0, 0>>, data |-> <<>>]
    /\ bb_neighbors = [shape |-> <<0, 0>>, data |-> <<>>]
    /\ bb_entry = 0
    /\ bb_ef_search = 16
    /\ bb_ret = None
    /\ bb_pc = "idle"
    /\ pdf_args = [batch_size |-> 100, chunk_size |-> 1000, chunk_overlap |-> 200,
                   m |-> 24, ef_construction |-> 128, ef_search |-> 80,
                   block_size |-> DefaultBlockSize]
    /\ pdfs = <<>>
    /\ used_codes = {}
    /\ mapping_files = <<>>
    /\ shards = <<>>
    /\ file_mapping = [saved |-> FALSE, files |-> <<>>]
    /\ pdf_pc = "idle"
    /\ total_pages = 0
    /\ raw_chunks = <<>>
    /\ processed_chunks = <<>>
    /\ batch_i = 0
    /\ sem_args = [semantic_enabled |-> FALSE, api_key |-> FALSE,
                   semantic_batch_size |-> 64]
    /\ sem_books = <<>>
    /\ sem_pc = "idle"
    /\ sem_attempt = 0
    /\ sem_i = 0
    /\ sem_vectors = <<>>
    /\ label_vecs = <<>>
    /\ semantic_call_info = [enabled |-> FALSE, label_count |-> 0, section_count |-> 0]
    /\ written_files = <<>>
    /\ sem_error = ""
    /\ vb_file = <<>>
    /\ vb_ret = ""
    /\ vb_pc = "idle"
    /\ ck_script = "voyage"
    /\ ck_pages = <<>>
    /\ ck_chunk_size = 1000
    /\ ck_overlap = 200
    /\ ck_page = 0
    /\ ck_start = 0
    /\ ck_chunks = <<>>
    /\ ck_pc = "idle"

\* build_ann_index.py main at the start of a package; the rest idle
InitAnn ==
    /\ knn_vectors = <<>>
    /\ knn_m = 1
    /\ knn_block = 1
    /\ knn_tie = <<>>
    /\ neighbors = <<>>
    /\ knn_pending = {}
    /\ nz_arg = <<>>
    /\ nz_ret = None
    /\ nz_pc = "idle"
    /\ route_args = [section_pages |-> 20, min_chunks_per_section |-> 1]
    /\ section_pages = 20
    /\ min_chunks = 1
    /\ route_chunks = <<>>
    /\ book_dim = NoDim
    /\ book_sum = None
    /\ book_count = 0
    /\ max_page_seen = 1
    /\ section_stats = <<>>
    /\ route_pc = "idle"
    /\ books_out = <<>>
    /\ skipped = <<>>
    /\ ann_args \in [m : {1, 5}, block_size : {DefaultBlockSize},
                      ef_construction : {128}, ef_search : {8, 80}]
    /\ ann_chunks = <<>>
    /\ embeddings = <<>>
    /\ id_map = <<>>
    /\ ann_pc = "chunks"
    /\ ann_out = <<>>
    /\ bin_files = <<>>
    /\ out_obj = None
    /\ bb_vectors = [shape |-> <<0, 0>>, data |-> <<>>]
    /\ bb_neighbors = [shape |-> <<0, 0>>, data |-> <<>>]
    /\ bb_entry = 0
    /\ bb_ef_search = 16
    /\ bb_ret = None
    /\ bb_pc = "idle"
    /\ pdf_args = [batch_size |-> 100, chunk_size |-> 1000, chunk_overlap |-> 200,
                   m |-> 24, ef_construction |-> 128, ef_search |-> 80,
                   block_size |-> DefaultBlockSize]
    /\ pdfs = <<>>
    /\ used_codes = {}
    /\ mapping_files = <<>>
    /\ shards = <<>>
    /\ file_mapping = [saved |-> FALSE, files |-> <<>>]
    /\ pdf_pc = "idle"
    /\ total_pages = 0
    /\ raw_chunks = <<>>
    /\ processed_chunks = <<>>
    /\ batch_i = 0
    /\ sem_args = [semantic_enabled |-> FALSE, api_key |-> FALSE,
                   semantic_batch_size |-> 64]
    /\ sem_books = <<>>
    /\ sem_pc = "idle"
    /\ sem_attempt = 0
    /\ sem_i = 0
    /\ sem_vectors = <<>>
    /\ label_vecs = <<>>
    /\ semantic_call_info = [enabled |-> FALSE, label_count |-> 0, section_count |-> 0]
    /\ written_files = <<>>
    /\ sem_error = ""
    /\ vb_file = <<>>
    /\ vb_ret = ""
    /\ vb_pc = "idle"
    /\ ck_script = "voyage"
    /\ ck_pages = <<>>
    /\ ck_chunk_size = 1000
    /\ ck_overlap = 200
    /\ ck_page = 0
    /\ ck_start = 0
    /\ ck_chunks = <<>>
    /\ ck_pc = "idle"

\* routing.py main before the first .bin file is read; the rest idle
InitBatch ==
    /\ knn_vectors = <<>>
    /\ knn_m = 1
    /\ knn_block = 1
    /\ knn_tie = <<>>
    /\ neighbors = <<>>
    /\ knn_pending = {}
    /\ nz_arg = <<>>
    /\ nz_ret = None
    /\ nz_pc = "idle"
    /\ route_args \in [section_pages : {0, 2}, min_chunks_per_section : {0, 2}]
    /\ section_pages = Max(1, route_args.section_pages)
    /\ min_chunks = Max(1, route_args.min_chunks_per_section)
    /\ route_chunks = <<>>
    /\ book_dim = NoDim
    /\ book_sum = None
    /\ book_count = 0
    /\ max_page_seen = 1
    /\ section_stats = <<>>
    /\ route_pc = "packages"
    /\ books_out = <<>>
    /\ skipped = <<>>
    /\ ann_args = [m |-> 24, block_size |-> DefaultBlockSize,
                   ef_construction |-> 128, ef_search |-> 80]
    /\ ann_chunks = <<>>
    /\ embeddings = <<>>
    /\ id_map = <<>>
    /\ ann_pc = "idle"
    /\ ann_out = <<>>
    /\ bin_files = <<>>
    /\ out_obj = None
    /\ bb_vectors = [shape |-> <<0, 0>>, data |-> <<>>]
    /\ bb_neighbors = [shape |-> <<0, 0>>, data |-> <<>>]
    /\ bb_entry = 0
    /\ bb_ef_search = 16
    /\ bb_ret = None
    /\ bb_pc = "idle"
    /\ pdf_args = [batch_size |-> 100, chunk_size |-> 1000, chunk_overlap |-> 200,
                   m |-> 24, ef_construction |-> 128, ef_search |-> 80,
                   block_size |-> DefaultBlockSize]
    /\ pdfs = <<>>
    /\ used_codes = {}
    /\ mapping_files = <<>>
    /\ shards = <<>>
    /\ file_mapping = [saved |-> FALSE, files |-> <<>>]
    /\ pdf_pc = "idle"
    /\ total_pages = 0
    /\ raw_chunks = <<>>
    /\ processed_chunks = <<>>
    /\ batch_i = 0
    /\ sem_args = [semantic_enabled |-> FALSE, api_key |-> FALSE,
                   semantic_batch_size |-> 64]
    /\ sem_books = <<>>
    /\ sem_pc = "idle"
    /\ sem_attempt = 0
    /\ sem_i = 0
    /\ sem_vectors = <<>>
    /\ label_vecs = <<>>
    /\ semantic_call_info = [enabled |-> FALSE, label_count |-> 0, section_count |-> 0]
    /\ written_files = <<>>
    /\ sem_error = ""
    /\ vb_file = <<>>
    /\ vb_ret = ""
    /\ vb_pc = "idle"
    /\ ck_script = "voyage"
    /\ ck_pages = <<>>
    /\ ck_chunk_size = 1000
    /\ ck_overlap = 200
    /\ ck_page = 0
    /\ ck_start = 0
    /\ ck_chunks = <<>>
    /\ ck_pc = "idle"

\* build_binary called on some matrix and neighbor array; the rest idle
InitBinary ==
    /\ knn_vectors = <<>>
    /\ knn_m = 1
    /\ knn_block = 1
    /\ knn_tie = <<>>
    /\ neighbors = <<>>
    /\ knn_pending = {}
    /\ nz_arg = <<>>
    /\ nz_ret = None
    /\ nz_pc = "idle"
    /\ route_args = [section_pages |-> 20, min_chunks_per_section |-> 1]
    /\ section_pages = 20
    /\ min_chunks = 1
    /\ route_chunks = <<>>
    /\ book_dim = NoDim
    /\ book_sum = None
    /\ book_count = 0
    /\ max_page_seen = 1
    /\ section_stats = <<>>
    /\ route_pc = "idle"
    /\ books_out = <<>>
    /\ skipped = <<>>
    /\ ann_args = [m |-> 24, block_size |-> DefaultBlockSize,
                   ef_construction |-> 128, ef_search |-> 80]
    /\ ann_chunks = <<>>
    /\ embeddings = <<>>
    /\ id_map = <<>>
    /\ ann_pc = "idle"
    /\ ann_out = <<>>
    /\ bin_files = <<>>
    /\ out_obj = None
    /\ bb_vectors \in BinMatrices
    /\ bb_neighbors \in UNION {BinNeighbors(bb_vectors, m) : m \in 1 .. MaxBinM}
    /\ bb_entry = 0
    /\ bb_ef_search \in {16, 80}
    /\ bb_ret = None
    /\ bb_pc = "call"
    /\ pdf_args = [batch_size |-> 100, chunk_size |-> 1000, chunk_overlap |-> 200,
                   m |-> 24, ef_construction |-> 128, ef_search |-> 80,
                   block_size |-> DefaultBlockSize]
    /\ pdfs = <<>>
    /\ used_codes = {}
    /\ mapping_files = <<>>
    /\ shards = <<>>
    /\ file_mapping = [saved |-> FALSE, files |-> <<>>]
    /\ pdf_pc = "idle"
    /\ total_pages = 0
    /\ raw_chunks = <<>>
    /\ processed_chunks = <<>>
    /\ batch_i = 0
    /\ sem_args = [semantic_enabled |-> FALSE, api_key |-> FALSE,
                   semantic_batch_size |-> 64]
    /\ sem_books = <<>>
    /\ sem_pc = "idle"
    /\ sem_attempt = 0
    /\ sem_i = 0
    /\ sem_vectors = <<>>
    /\ label_vecs = <<>>
    /\ semantic_call_info = [enabled |-> FALSE, label_count |-> 0, section_count |-> 0]
    /\ written_files = <<>>
    /\ sem_error = ""
    /\ vb_file = <<>>
    /\ vb_ret = ""
    /\ vb_pc = "idle"
    /\ ck_script = "voyage"
    /\ ck_pages = <<>>
    /\ ck_chunk_size = 1000
    /\ ck_overlap = 200
    /\ ck_page = 0
    /\ ck_start = 0
    /\ ck_chunks = <<>>
    /\ ck_pc = "idle"

\* pdf_to_bin_inline_ann.py main before the first PDF; the rest idle
InitPdf ==
    /\ knn_vectors = <<>>
    /\ knn_m = 1
    /\ knn_block = 1
    /\ knn_tie = <<>>
    /\ neighbors = <<>>
    /\ knn_pending = {}
    /\ nz_arg = <<>>
    /\ nz_ret = None
    /\ nz_pc = "idle"
    /\ route_args = [section_pages |-> 20, min_chunks_per_section |-> 1]
    /\ section_pages = 20
    /\ min_chunks = 1
    /\ route_chunks = <<>>
    /\ book_dim = NoDim
    /\ book_sum = None
    /\ book_count = 0
    /\ max_page_seen = 1
    /\ section_stats = <<>>
    /\ route_pc = "idle"
    /\ books_out = <<>>
    /\ skipped = <<>>
    /\ ann_args = [m |-> 24, block_size |-> DefaultBlockSize,
                   ef_construction |-> 128, ef_search |-> 80]
    /\ ann_chunks = <<>>
    /\ embeddings = <<>>
    /\ id_map = <<>>
    /\ ann_pc = "idle"
    /\ ann_out = <<>>
    /\ bin_files = <<>>
    /\ out_obj = None
    /\ bb_vectors = [shape |-> <<0, 0>>, data |-> <<>>]
    /\ bb_neighbors = [shape |-> <<0, 0>>, data |-> <<>>]
    /\ bb_entry = 0
    /\ bb_ef_search = 16
    /\ bb_ret = None
    /\ bb_pc = "idle"
    /\ pdf_args \in PdfArgs
    /\ pdfs = <<>>
    /\ used_codes = {}
    /\ mapping_files = <<>>
    /\ shards = <<>>
    /\ file_mapping = [saved |-> FALSE, files |-> <<>>]
    /\ pdf_pc = "loop"
    /\ total_pages = 0
    /\ raw_chunks = <<>>
    /\ processed_chunks = <<>>
    /\ batch_i = 0
    /\ sem_args = [semantic_enabled |-> FALSE, api_key |-> FALSE,
                   semantic_batch_size |-> 64]
    /\ sem_books = <<>>
    /\ sem_pc = "idle"
    /\ sem_attempt = 0
    /\ sem_i = 0
    /\ sem_vectors = <<>>
    /\ label_vecs = <<>>
    /\ semantic_call_info = [enabled |-> FALSE, label_count |-> 0, section_count |-> 0]
    /\ written_files = <<>>
    /\ sem_error = ""
    /\ vb_file = <<>>
    /\ vb_ret = ""
    /\ vb_pc = "idle"
    /\ ck_script = "voyage"
    /\ ck_pages = <<>>
    /\ ck_chunk_size = 1000
    /\ ck_overlap = 200
    /\ ck_page = 0
    /\ ck_start = 0
    /\ ck_chunks = <<>>
    /\ ck_pc = "idle"

\* bin_to_routing_with_semantic_labels.py main after the aggregation, before
\* the semantic step; the rest idle
InitSem ==
    /\ knn_vectors = <<>>
    /\ knn_m = 1
    /\ knn_block = 1
    /\ knn_tie = <<>>
    /\ neighbors = <<>>
    /\ knn_pending = {}
    /\ nz_arg = <<>>
    /\ nz_ret = None
    /\ nz_pc = "idle"
    /\ route_args = [section_pages |-> 20, min_chunks_per_section |-> 1]
    /\ section_pages = 20
    /\ min_chunks = 1
    /\ route_chunks = <<>>
    /\ book_dim = NoDim
    /\ book_sum = None
    /\ book_count = 0
    /\ max_page_seen = 1
    /\ section_stats = <<>>
    /\ route_pc = "idle"
    /\ books_out = <<>>
    /\ skipped = <<>>
    /\ ann_args = [m |-> 24, block_size |-> DefaultBlockSize,
                   ef_construction |-> 128, ef_search |-> 80]
    /\ ann_chunks = <<>>
    /\ embeddings = <<>>
    /\ id_map = <<>>
    /\ ann_pc = "idle"
    /\ ann_out = <<>>
    /\ bin_files = <<>>
    /\ out_obj = None
    /\ bb_vectors = [shape |-> <<0, 0>>, data |-> <<>>]
    /\ bb_neighbors = [shape |-> <<0, 0>>, data |-> <<>>]
    /\ bb_entry = 0
    /\ bb_ef_search = 16
    /\ bb_ret = None
    /\ bb_pc = "idle"
    /\ pdf_args = [batch_size |-> 100, chunk_size |-> 1000, chunk_overlap |-> 200,
                   m |-> 24, ef_construction |-> 128, ef_search |-> 80,
                   block_size |-> DefaultBlockSize]
    /\ pdfs = <<>>
    /\ used_codes = {}
    /\ mapping_files = <<>>
    /\ shards = <<>>
    /\ file_mapping = [saved |-> FALSE, files |-> <<>>]
    /\ pdf_pc = "idle"
    /\ total_pages = 0
    /\ raw_chunks = <<>>
    /\ processed_chunks = <<>>
    /\ batch_i = 0
    /\ sem_args \in [semantic_enabled : BOOLEAN, api_key : BOOLEAN,
                      semantic_batch_size : {0, 2}]
    /\ sem_books \in SemBookLists
    /\ sem_pc = "start"
    /\ sem_attempt = 0
    /\ sem_i = 0
    /\ sem_vectors = <<>>
    /\ label_vecs = <<>>
    /\ semantic_call_info = [enabled |-> FALSE, label_count |-> 0, section_count |-> 0]
    /\ written_files = <<>>
    /\ sem_error = ""
    /\ vb_file = <<>>
    /\ vb_ret = ""
    /\ vb_pc = "idle"
    /\ ck_script = "voyage"
    /\ ck_pages = <<>>
    /\ ck_chunk_size = 1000
    /\ ck_overlap = 200
    /\ ck_page = 0
    /\ ck_start = 0
    /\ ck_chunks = <<>>
    /\ ck_pc = "idle"

\* a shard on disk before verify_bin reads it; the rest idle
InitVerify ==
    /\ knn_vectors = <<>>
    /\ knn_m = 1
    /\ knn_block = 1
    /\ knn_tie = <<>>
    /\ neighbors = <<>>
    /\ knn_pending = {}
    /\ nz_arg = <<>>
    /\ nz_ret = None
    /\ nz_pc = "idle"
    /\ route_args = [section_pages |-> 20, min_chunks_per_section |-> 1]
    /\ section_pages = 20
    /\ min_chunks = 1
    /\ route_chunks = <<>>
    /\ book_dim = NoDim
    /\ book_sum = None
    /\ book_count = 0
    /\ max_page_seen = 1
    /\ section_stats = <<>>
    /\ route_pc = "idle"
    /\ books_out = <<>>
    /\ skipped = <<>>
    /\ ann_args = [m |-> 24, block_size |-> DefaultBlockSize,
                   ef_construction |-> 128, ef_search |-> 80]
    /\ ann_chunks = <<>>
    /\ embeddings = <<>>
    /\ id_map = <<>>
    /\ ann_pc = "idle"
    /\ ann_out = <<>>
    /\ bin_files = <<>>
    /\ out_obj = None
    /\ bb_vectors = [shape |-> <<0, 0>>, data |-> <<>>]
    /\ bb_neighbors = [shape |-> <<0, 0>>, data |-> <<>>]
    /\ bb_entry = 0
    /\ bb_ef_search = 16
    /\ bb_ret = None
    /\ bb_pc = "idle"
    /\ pdf_args = [batch_size |-> 100, chunk_size |-> 1000, chunk_overlap |-> 200,
                   m |-> 24, ef_construction |-> 128, ef_search |-> 80,
                   block_size |-> DefaultBlockSize]
    /\ pdfs = <<>>
    /\ used_codes = {}
    /\ mapping_files = <<>>
    /\ shards = <<>>
    /\ file_mapping = [saved |-> FALSE, files |-> <<>>]
    /\ pdf_pc = "idle"
    /\ total_pages = 0
    /\ raw_chunks = <<>>
    /\ processed_chunks = <<>>
    /\ batch_i = 0
    /\ sem_args = [semantic_enabled |-> FALSE, api_key |-> FALSE,
                   semantic_batch_size |-> 64]
    /\ sem_books = <<>>
    /\ sem_pc = "idle"
    /\ sem_attempt = 0
    /\ sem_i = 0
    /\ sem_vectors = <<>>
    /\ label_vecs = <<>>
    /\ semantic_call_info = [enabled |-> FALSE, label_count |-> 0, section_count |-> 0]
    /\ written_files = <<>>
    /\ sem_error = ""
    /\ vb_file \in ShardFiles
    /\ vb_ret = ""
    /\ vb_pc = "call"
    /\ ck_script = "voyage"
    /\ ck_pages = <<>>
    /\ ck_chunk_size = 1000
    /\ ck_overlap = 200
    /\ ck_page = 0
    /\ ck_start = 0
    /\ ck_chunks = <<>>
    /\ ck_pc = "idle"

\* a call of chunk_text_with_page_context in one of its three copies; the
\* rest idle
InitChunk ==
    /\ knn_vectors = <<>>
    /\ knn_m = 1
    /\ knn_block = 1
    /\ knn_tie = <<>>
    /\ neighbors = <<>>
    /\ knn_pending = {}
    /\ nz_arg = <<>>
    /\ nz_ret = None
    /\ nz_pc = "idle"
    /\ route_args = [section_pages |-> 20, min_chunks_per_section |-> 1]
    /\ section_pages = 20
    /\ min_chunks = 1
    /\ route_chunks = <<>>
    /\ book_dim = NoDim
    /\ book_sum = None
    /\ book_count = 0
    /\ max_page_seen = 1
    /\ section_stats = <<>>
    /\ route_pc = "idle"
    /\ books_out = <<>>
    /\ skipped = <<>>
    /\ ann_args = [m |-> 24, block_size |-> DefaultBlockSize,
                   ef_construction |-> 128, ef_search |-> 80]
    /\ ann_chunks = <<>>
    /\ embeddings = <<>>
    /\ id_map = <<>>
    /\ ann_pc = "idle"
    /\ ann_out = <<>>
    /\ bin_files = <<>>
    /\ out_obj = None
    /\ bb_vectors = [shape |-> <<0, 0>>, data |-> <<>>]
    /\ bb_neighbors = [shape |-> <<0, 0>>, data |-> <<>>]
    /\ bb_entry = 0
    /\ bb_ef_search = 16
    /\ bb_ret = None
    /\ bb_pc = "idle"
    /\ pdf_args = [batch_size |-> 100, chunk_size |-> 1000, chunk_overlap |-> 200,
                   m |-> 24, ef_construction |-> 128, ef_search |-> 80,
                   block_size |-> DefaultBlockSize]
    /\ pdfs = <<>>
    /\ used_codes = {}
    /\ mapping_files = <<>>
    /\ shards = <<>>
    /\ file_mapping = [saved |-> FALSE, files |-> <<>>]
    /\ pdf_pc = "idle"
    /\ total_pages = 0
    /\ raw_chunks = <<>>
    /\ processed_chunks = <<>>
    /\ batch_i = 0
    /\ sem_args = [semantic_enabled |-> FALSE, api_key |-> FALSE,
                   semantic_batch_size |-> 64]
    /\ sem_books = <<>>
    /\ sem_pc = "idle"
    /\ sem_attempt = 0
    /\ sem_i = 0
    /\ sem_vectors = <<>>
    /\ label_vecs = <<>>
    /\ semantic_call_info = [enabled |-> FALSE, label_count |-> 0, section_count |-> 0]
    /\ written_files = <<>>
    /\ sem_error = ""
    /\ vb_file = <<>>
    /\ vb_ret = ""
    /\ vb_pc = "idle"
    /\ ck_script \in ChunkScripts
    /\ ck_pages \in ChunkPageLists
    /\ \E setting \in ChunkSettings :
          /\ ck_chunk_size = setting[1]
          /\ ck_overlap = setting[2]
    /\ ck_page = 0
    /\ ck_start = 0
    /\ ck_chunks = <<>>
    /\ ck_pc = "call"

KnnNext == KnnLoopStep \/ KnnBlockOutOfOrder

SpecKnn == InitKnn /\ [][KnnNext]_vars

NzNext == L2NormalizeCall

SpecNorm == InitNorm /\ [][NzNext]_vars

RouteNext == RouteChunk \/ RouteFinish

SpecRoute == InitRoute /\ [][RouteNext]_vars

BatchNext == RoutePackage \/ RouteNoBinFiles \/ RouteWrite

SpecBatch == InitBatch /\ [][BatchNext]_vars

BinaryNext == BuildBinaryCall

SpecBinary == InitBinary /\ [][BinaryNext]_vars

PdfNext ==
    \/ PdfOpen
    \/ PdfEmbedBatch
    \/ PdfNoEmbeddings
    \/ PdfRaggedMatrix
    \/ PdfInvalidMatrix
    \/ PdfBuild
    \/ PdfNoPdfs
    \/ PdfSaveMapping

SpecPdf == InitPdf /\ [][PdfNext]_vars

SemNext ==
    \/ SemStart
    \/ SemRateLimited
    \/ SemRequestFailed
    \/ SemEmbedded
    \/ SemWrite

SpecSem == InitSem /\ [][SemNext]_vars

VerifyNext == VerifyBinCall

SpecVerify == InitVerify /\ [][VerifyNext]_vars

ChunkNext ==
    \/ ChunkEnter
    \/ ChunkNextPage
    \/ ChunkWindow

SpecChunk == InitChunk /\ [][ChunkNext]_vars

AnnNext == AnnReadChunk \/ AnnNoChunks \/ AnnBuild

SpecAnn == InitAnn /\ [][AnnNext]_vars

\* ------------------------------------------- claims on chunked_knn_graph
Sim(i, j) == Dot(knn_vectors[i], knn_vectors[j])

Filled(i) == {k \in DOMAIN neighbors[i] : neighbors[i][k] # 0 - 1}

Listed(i) == {neighbors[i][k] : k \in Filled(i)}

SlotOf(i, j) == CHOOSE k \in Filled(i) : neighbors[i][k] = j

\* C1: no row of the graph lists its own node: neighbors[i][k] # i for all i, k
C1_NoSelfNeighbor ==
    \A i \in DOMAIN neighbors : \A k \in DOMAIN neighbors[i] : neighbors[i][k] # i

\* a finished multi-block graph in which a row of a later block is filled
C1_Witness ==
    /\ KnnDone
    /\ NodeCount(knn_vectors) > knn_block
    /\ \E i \in DOMAIN neighbors : i >= knn_block /\ Filled(i) # {}

\* C2: every row has exactly m slots, min(m, N-1) of them filled (0 when
\* N <= 1) and the rest -1
C2_RowSize ==
    KnnDone =>
        \A i \in DOMAIN neighbors :
            /\ DOMAIN neighbors[i] = 0 .. knn_m - 1
            /\ Cardinality(Filled(i)) =
                  (IF NodeCount(knn_vectors) <= 1 THEN 0
                   ELSE Min(knn_m, NodeCount(knn_vectors) - 1))
            /\ \A k \in DOMAIN neighbors[i] :
                  neighbors[i][k] = 0 - 1 \/ neighbors[i][k] \in DOMAIN knn_vectors

\* a finished graph with more slots than candidates, so some slots stay -1
C2_Witness ==
    /\ KnnDone
    /\ NodeCount(knn_vectors) >= 2
    /\ knn_m > NodeCount(knn_vectors) - 1
    /\ \E i \in DOMAIN neighbors : Filled(i) # {} /\ Filled(i) # DOMAIN neighbors[i]

\* C3: within a row the filled slots are in non-increasing similarity order
C3_DescendingOrder ==
    KnnDone =>
        \A i \in DOMAIN neighbors : \A k \in Filled(i) :
            (k + 1) \in Filled(i) =>
                Sim(i, neighbors[i][k]) >= Sim(i, neighbors[i][k + 1])

\* a finished row with two filled slots of strictly different similarity
C3_Witness ==
    /\ KnnDone
    /\ \E i \in DOMAIN neighbors :
          /\ {0, 1} \subseteq Filled(i)
          /\ Sim(i, neighbors[i][0]) > Sim(i, neighbors[i][1])

\* C4: the listed nodes are pairwise distinct indices and form an exact
\* top-k set: no unlisted j # i is more similar to i than a listed node
C4_ExactTopSet ==
    KnnDone =>
        \A i \in DOMAIN neighbors :
            /\ Listed(i) \subseteq DOMAIN knn_vectors
            /\ \A k1, k2 \in Filled(i) :
                  neighbors[i][k1] = neighbors[i][k2] => k1 = k2
            /\ \A j \in DOMAIN knn_vectors \ (Listed(i) \cup {i}) :
                  \A l \in Listed(i) : Sim(i, j) <= Sim(i, l)

\* a finished row that had to leave out a strictly less similar candidate
C4_Witness ==
    /\ KnnDone
    /\ \E i \in DOMAIN neighbors :
          \E j \in DOMAIN knn_vectors \ (Listed(i) \cup {i}) :
              \E l \in Listed(i) : Sim(i, j) < Sim(i, l)

TiedPairs(i) ==
    {ab \in (DOMAIN knn_vectors) \X (DOMAIN knn_vectors) :
        /\ ab[1] # i /\ ab[2] # i /\ ab[1] # ab[2]
        /\ Sim(i, ab[1]) = Sim(i, ab[2])}

RowsOfBlock(start) ==
    {i \in DOMAIN neighbors :
        i >= start /\ i < BlockEnd(start, knn_block, NodeCount(knn_vectors))}

\* C6: every step writes only the rows of the block it computes, and once all
\* blocks are done, in whatever order, the graph equals the one the
\* sequential loop produces for every block size
C6_BlockOrderIndependent ==
    [][\A start \in knn_pending \ knn_pending' :
          /\ \A i \in DOMAIN neighbors \ RowsOfBlock(start) :
                neighbors'[i] = neighbors[i]
          /\ knn_pending' = {} =>
                \A bs \in 1 .. MaxBlock + 1 :
                    neighbors' = chunked_knn_graph(knn_vectors, knn_m, bs, knn_tie)]_vars

\* a later block has written its rows while an earlier block is still pending
C6_Witness ==
    \E s \in knn_pending :
        \E i \in DOMAIN neighbors :
            /\ i >= s + knn_block
            /\ Filled(i) # {}
            /\ Filled(s) = {}

Range(f) == {f[x] : x \in DOMAIN f}

\* ----------------------------------------------- claims on the ANN build
\* chunks whose embedding has a zero or non-finite norm
AnnInvalidChunks ==
    {p \in 1 .. Len(ann_chunks) :
        Len(ann_chunks[p].embedding) > 0 /\ l2_normalize(ann_chunks[p].embedding) = None}

\* C7: a chunk with zero or non-finite norm is no node of the artifact: it is
\* not counted in node_count, not in id_map and in no neighbor list
C7_InvalidVectorNotInGraph ==
    ann_pc = "written" =>
        /\ ann_out.node_count = Len(ann_chunks) - Cardinality(AnnInvalidChunks)
        /\ \A p \in AnnInvalidChunks :
              /\ ann_chunks[p].id \notin Range(ann_out.id_map)
              /\ \A i \in DOMAIN ann_out.neighbors :
                    (p - 1) \notin Range(ann_out.neighbors[i])

\* chunks with a non-empty list embedding and a str id
AnnWellFormedChunks ==
    {p \in 1 .. Len(ann_chunks) :
        Len(ann_chunks[p].embedding) > 0 /\ ann_chunks[p].id # NotStr}

\* C16: a package holding a malformed chunk next to well-formed ones is not
\* skipped: its artifact is written, with the well-formed chunks as nodes
C16_MalformedChunkDoesNotAbort ==
    (ann_pc \in {"skipped", "written"} /\ AnnWellFormedChunks # {}) =>
        /\ ann_pc = "written"
        /\ ann_out.node_count = Cardinality(AnnWellFormedChunks)
        /\ Range(ann_out.id_map) = {ann_chunks[p].id : p \in AnnWellFormedChunks}

\* ------------------------------------------------ claims on l2_normalize
\* the computed norm is zero, or NaN / infinite (float32 overflow included)
NzDegenerate(v) ==
    \/ \A i \in DOMAIN v : v[i] = 0
    \/ \E i \in DOMAIN v : ~IsFinite(v[i]) \/ Abs(v[i]) >= Huge

\* C9: l2_normalize returns None exactly for a zero or non-finite norm,
\* otherwise the argument divided by its norm (each component within one
\* rounding step, same sign), and leaves its argument as it was
C9_NormalizeContract ==
    [][(nz_pc = "call" /\ nz_pc' = "returned") =>
          /\ nz_arg' = nz_arg
          /\ (nz_ret' = None) <=> NzDegenerate(nz_arg)
          /\ nz_ret' # None =>
                /\ DOMAIN nz_ret' = DOMAIN nz_arg
                /\ \A i \in DOMAIN nz_arg :
                      /\ nz_ret'[i] * nz_arg[i] >= 0
                      /\ Abs(nz_arg[i]) * Unit - Abs(nz_ret'[i]) * Norm(nz_arg) >= 0
                      /\ Abs(nz_arg[i]) * Unit - Abs(nz_ret'[i]) * Norm(nz_arg) < Norm(nz_arg)]_vars

\* the call has returned the unit vector of <<3, 4>>
C9_Witness ==
    /\ nz_pc = "returned"
    /\ nz_arg = <<3, 4>>
    /\ nz_ret = <<36, 48>>

\* ------------------------------------------- claims on the aggregation
RemoveAt(seq, k) == [i \in 1 .. Len(seq) - 1 |-> IF i < k THEN seq[i] ELSE seq[i + 1]]

\* chunks for which normalize returns None
UnusableChunks ==
    {p \in 1 .. Len(route_chunks) :
        Len(route_chunks[p].embedding) > 0 /\ l2_normalize(route_chunks[p].embedding) = None}

\* what the finished run recorded for the package
Recorded == IF Len(books_out) > 0 THEN books_out[Len(books_out)] ELSE [skip |-> "skipped"]

SameOutcome(a, b) ==
    /\ (a.skip = "") <=> (b.skip = "")
    /\ a.skip = "" => a = b

\* C8: removing a chunk for which normalize returns None from the package
\* leaves the recorded outcome unchanged: same skip decision, same book
C8_UnusableContributesNothing ==
    route_pc = "done" =>
        \A p \in UnusableChunks :
            SameOutcome(Recorded,
                        Aggregate(RemoveAt(route_chunks, p), section_pages, min_chunks))

Members(idx) == Range(section_stats[idx].members)

EffectivePage(p) == to_int_page(route_chunks[p].page, 1)

\* chunks that pass the dimension check and normalize to a vector
UsableChunks ==
    {p \in 1 .. Len(route_chunks) :
        /\ Len(route_chunks[p].embedding) > 0
        /\ Len(route_chunks[p].embedding) = book_dim
        /\ l2_normalize(route_chunks[p].embedding) # None}

\* C10: every usable chunk is in exactly one bucket, the one with index
\* (page - 1) div sectionPages and range [idx*sp + 1, (idx+1)*sp]; the pages of
\* the chunks of an emitted section lie in its range, which spans sp pages
C10_BucketOfPage ==
    /\ \A p \in UsableChunks :
          /\ ((EffectivePage(p) - 1) \div section_pages) \in DOMAIN section_stats
          /\ \A idx \in DOMAIN section_stats :
                p \in Members(idx) <=> idx = (EffectivePage(p) - 1) \div section_pages
    /\ \A idx \in DOMAIN section_stats :
          /\ Members(idx) \subseteq UsableChunks
          /\ Cardinality(Members(idx)) = section_stats[idx].count
          /\ section_stats[idx].page_start = idx * section_pages + 1
          /\ section_stats[idx].page_end = (idx + 1) * section_pages
    /\ \A b \in Range(books_out) : \A sec \in Range(b.sections) :
          /\ sec.page_end - sec.page_start + 1 = section_pages
          /\ sec.section_id \in DOMAIN section_stats
          /\ \A p \in Members(sec.section_id) :
                /\ sec.page_start <= EffectivePage(p)
                /\ EffectivePage(p) <= sec.page_end
                /\ route_chunks[p].page > 0 => route_chunks[p].page = EffectivePage(p)

\* a book with a section beyond the first and a chunk on the last page of
\* a two-page section
C10_Witness ==
    /\ route_pc = "done"
    /\ section_pages = 2
    /\ \E b \in Range(books_out) :
          /\ \E sec \in Range(b.sections) : sec.section_id > 0
          /\ \E sec \in Range(b.sections) :
                \E p \in Members(sec.section_id) : route_chunks[p].page = sec.page_end

\* the book the finished run emitted for the package
EmittedBooks == IF route_pc = "done" THEN Range(books_out) ELSE {}

RECURSIVE SumOver(_, _)
\* sum of the normalized embeddings of the chunks at the positions in S
SumOver(S, dim) ==
    IF S = {} THEN Zeros(dim)
    ELSE LET p == CHOOSE q \in S : TRUE
         IN  VecAdd(SumOver(S \ {p}, dim), l2_normalize(route_chunks[p].embedding))

MeanOver(S, dim) == VecMean(SumOver(S, dim), Cardinality(S))

PositiveFiniteNorm(v) == Norm(v) > 0 /\ IsFinite(Norm(v))

\* buckets the emission rule keeps
KeptBuckets ==
    {idx \in DOMAIN section_stats :
        /\ Cardinality(Members(idx)) >= min_chunks
        /\ PositiveFiniteNorm(MeanOver(Members(idx), book_dim))}

\* C11: the emitted sections are exactly the buckets with count >= min_chunks
\* whose mean vector has positive finite norm, each with the normalized mean
\* of its own chunks; the book aggregate is the normalized mean of all usable
\* chunks, those of dropped buckets included
C11_SectionEmissionRule ==
    \A b \in EmittedBooks :
        /\ {sec.section_id : sec \in Range(b.sections)} = KeptBuckets
        /\ \A sec \in Range(b.sections) :
              /\ sec.chunk_count = Cardinality(Members(sec.section_id))
              /\ sec.vector = l2_normalize(MeanOver(Members(sec.section_id), book_dim))
        /\ b.chunk_count = Cardinality(UsableChunks)
        /\ b.book_vector = l2_normalize(MeanOver(UsableChunks, book_dim))

\* a book with an emitted section and a dropped bucket: one whose chunks
\* cancel to a zero mean, or one with fewer than min_chunks chunks
C11_Witness ==
    \E b \in EmittedBooks :
        /\ Len(b.sections) > 0
        /\ \E idx \in DOMAIN section_stats \ KeptBuckets :
              \/ /\ section_stats[idx].count >= min_chunks
                 /\ ~PositiveFiniteNorm(MeanOver(Members(idx), book_dim))
              \/ /\ section_stats[idx].count < min_chunks
                 /\ PositiveFiniteNorm(MeanOver(Members(idx), book_dim))

\* ids of the chunks that pass the dimension check and normalize
UsableIds == {route_chunks[p].id : p \in UsableChunks} \ {NotStr}

\* C12: the chunk_ids of the emitted sections are ids of usable chunks of the
\* package, and no id is listed in two different sections
C12_ChunkIdsConserved ==
    \A b \in EmittedBooks :
        /\ \A sec \in Range(b.sections) : Range(sec.chunk_ids) \subseteq UsableIds
        /\ \A i, j \in DOMAIN b.sections :
              i # j => Range(b.sections[i].chunk_ids) \cap Range(b.sections[j].chunk_ids) = {}

\* a book with two sections that list ids, from a package that also holds an
\* unusable chunk with an id
C12_Witness ==
    \E b \in EmittedBooks :
        /\ \E i, j \in DOMAIN b.sections :
              /\ i # j
              /\ b.sections[i].chunk_ids # <<>>
              /\ b.sections[j].chunk_ids # <<>>
        /\ \E p \in UnusableChunks : route_chunks[p].id # NotStr

\* chunks read after the dimension was fixed whose embedding has another length
MismatchChunks ==
    {p \in 1 .. Len(route_chunks) :
        /\ Len(route_chunks[p].embedding) \notin {0, book_dim}
        /\ \E q \in 1 .. p - 1 : Len(route_chunks[q].embedding) = book_dim}

\* C14: reading a chunk whose embedding length differs from the first-seen
\* length leaves every sum, count, chunk_ids list and page statistic as it
\* was, so all chunks of the buckets, and the book and section vectors, have
\* the length embedding_dimensions
C14_DimensionMismatchDropped ==
    [][/\ (/\ Len(route_chunks') = Len(route_chunks) + 1
           /\ book_dim # NoDim
           /\ Len(route_chunks'[Len(route_chunks')].embedding) # book_dim)
          => /\ AggState' = AggState
             /\ book_dim' = book_dim
       /\ \A idx \in DOMAIN section_stats' :
             /\ Len(section_stats'[idx].sum) = book_dim'
             /\ \A q \in Range(section_stats'[idx].members) :
                   Len(route_chunks'[q].embedding) = book_dim'
       /\ \A b \in Range(books_out') :
             /\ b.embedding_dimensions = book_dim'
             /\ Len(b.book_vector) = book_dim'
             /\ \A sec \in Range(b.sections) : Len(sec.vector) = book_dim']_vars

\* a book emitted from a package in which a chunk of another length, itself
\* normalizable, was read after the dimension was fixed
C14_Witness ==
    /\ EmittedBooks # {}
    /\ \E p \in MismatchChunks : l2_normalize(route_chunks[p].embedding) # None

\* C15: the sections of a book are in strictly ascending section index, and
\* so in strictly ascending page_start
C15_SectionsAscending ==
    \A b \in EmittedBooks :
        \A i, j \in DOMAIN b.sections :
            i < j => /\ b.sections[i].section_id < b.sections[j].section_id
                     /\ b.sections[i].page_start < b.sections[j].page_start

\* a book with two sections whose later section was the first to get a chunk
C15_Witness ==
    \E b \in EmittedBooks :
        \E i, j \in DOMAIN b.sections :
            /\ i < j
            /\ \E q \in Members(b.sections[j].section_id) :
                  \A r \in Members(b.sections[i].section_id) : q < r

\* ------------------------------------------------ claims on the batch run
\* packages in which no chunk normalizes to a vector
NoUsableVector(pkg) ==
    /\ pkg.readable
    /\ \A p \in DOMAIN pkg.chunks :
          \/ Len(pkg.chunks[p].embedding) = 0
          \/ l2_normalize(pkg.chunks[p].embedding) = None

\* C13: a package without a usable vector gets no book and one skipped
\* entry, and the loop goes on: every file read so far has its book or its
\* skipped entry, and the file written at the end holds them all
C13_NoUsableVectorSkipped ==
    /\ \A k \in DOMAIN bin_files :
          NoUsableVector(bin_files[k]) =>
              /\ \A b \in Range(books_out) : b.source_bin # k
              /\ Cardinality({e \in DOMAIN skipped : skipped[e].source_bin = k}) = 1
    /\ \A k \in DOMAIN bin_files :
          \/ \E b \in Range(books_out) : b.source_bin = k
          \/ \E e \in Range(skipped) : e.source_bin = k
    /\ route_pc = "written" =>
          /\ out_obj.books = books_out
          /\ out_obj.skipped = skipped

\* the written routing file of a batch whose first package has only zero
\* embeddings and whose second package became a book
C13_Witness ==
    /\ route_pc = "written"
    /\ Len(bin_files) = 2
    /\ Len(bin_files[1].chunks) > 0
    /\ NoUsableVector(bin_files[1])
    /\ \E b \in Range(out_obj.books) : b.source_bin = 2
    /\ \E e \in Range(out_obj.skipped) :
          e.source_bin = 1 /\ e.reason = "no usable embeddings"

\* ------------------------------------------------ claims on build_binary
ByteAt(payload, off) == payload[off + 1][2]

\* the unsigned little-endian value of the four bytes at offset off
ReadU32(payload, off) ==
    ByteAt(payload, off) + 256 * ByteAt(payload, off + 1)
        + 65536 * ByteAt(payload, off + 2) + 16777216 * ByteAt(payload, off + 3)

\* the signed little-endian value of the four bytes at offset off
ReadI32(payload, off) ==
    LET low == ByteAt(payload, off) + 256 * ByteAt(payload, off + 1)
                   + 65536 * ByteAt(payload, off + 2)
        top == ByteAt(payload, off + 3)
    IN  IF top < 128 THEN low + 16777216 * top
        ELSE low + 16777216 * (top - 256)

\* the signed value of the byte at offset off
ReadI8(payload, off) ==
    IF ByteAt(payload, off) < 128 THEN ByteAt(payload, off)
    ELSE ByteAt(payload, off) - 256

BytesAt(payload, off, len) == SubSeq(payload, off + 1, off + len)

\* C19: the payload of N vectors of dimension D with neighbor width M is
\* 36 + N*D + 4N + 4NM bytes: magic at 0, version 1 at 8, dim at 12,
\* node_count at 16, m at 20, entry at 24, ef_search at 28, scale at 32, then
\* the codes row-major, the norms, and the neighbor indices (-1 for empty)
C19_BinaryLayout ==
    bb_pc = "returned" =>
        LET payload == bb_ret[1]
            N == bb_vectors.shape[1]
            D == bb_vectors.shape[2]
            M == bb_neighbors.shape[2]
        IN  /\ Len(payload) = 36 + N * D + N * 4 + N * M * 4
            /\ \A i \in 1 .. 8 : payload[i] = <<"u8", MAGIC[i]>>
            /\ \A b \in 9 .. 32 : payload[b][1] = "u8"
            /\ ReadU32(payload, 8) = 1
            /\ ReadU32(payload, 12) = D
            /\ ReadU32(payload, 16) = N
            /\ ReadU32(payload, 20) = M
            /\ ReadU32(payload, 24) = bb_entry
            /\ ReadU32(payload, 28) = bb_ef_search
            /\ BytesAt(payload, 32, 4) = F32(bb_ret[2])
            /\ \A i \in 0 .. N - 1 :
                  /\ \A j \in 0 .. D - 1 :
                        /\ payload[36 + i * D + j + 1][1] = "u8"
                        /\ ReadI8(payload, 36 + i * D + j) =
                               Quantize(bb_vectors.data[i][j + 1], bb_ret[2])
                  /\ BytesAt(payload, 36 + N * D + 4 * i, 4) =
                         F32(Float(Norm(bb_vectors.data[i]), Unit))
                  /\ \A k \in 0 .. M - 1 :
                        /\ \A b \in 1 .. 4 :
                              payload[36 + N * D + 4 * N + 4 * (i * M + k) + b][1] = "u8"
                        /\ ReadI32(payload, 36 + N * D + 4 * N + 4 * (i * M + k)) =
                               bb_neighbors.data[i][k]

\* a payload of two vectors of dimension one with two neighbor slots per
\* row, one filled and one empty
C19_Witness ==
    /\ bb_pc = "returned"
    /\ bb_vectors.shape = <<2, 1>>
    /\ bb_neighbors.shape = <<2, 2>>
    /\ bb_neighbors.data[0] = [k \in 0 .. 1 |-> IF k = 0 THEN 1 ELSE 0 - 1]
    /\ Len(bb_ret[1]) = 62

\* C20: build_binary of a matrix without rows returns the 36-byte header
\* with node_count 0 and no data bytes
C20_EmptyArtifactEncodes ==
    (bb_pc # "call" /\ bb_vectors.shape[1] = 0) =>
        /\ bb_pc = "returned"
        /\ Len(bb_ret[1]) = 36
        /\ ReadU32(bb_ret[1], 16) = 0


\* ------------------------------------------------- claims on the PDF run
\* the PDFs of the run that left no shard
PdfWithoutShard ==
    {k \in 1 .. Len(pdfs) : \A i \in DOMAIN shards : shards[i].pdf # k}

\* the PDFs file_mapping.json names together with a reason
PdfReportedSkips ==
    {k \in 1 .. Len(pdfs) :
        \E i \in DOMAIN file_mapping.files :
            /\ file_mapping.files[i].pdf = k
            /\ "error" \in DOMAIN file_mapping.files[i]}

\* C17: once the run has saved its report, every input document that left no
\* output artifact is recorded in the report together with its reason, so
\* the outputs and the recorded skips add up to the inputs.
C17_EverySkipReported ==
    file_mapping.saved =>
        /\ PdfWithoutShard \subseteq PdfReportedSkips
        /\ Len(shards) + Cardinality(PdfReportedSkips) = Len(pdfs)


\* -------------------------------------------- claims on the semantic step
\* C18: a permanent failure of the embedding provider is never fatal: no
\* exception escapes the run, and a run that is over has written the
\* companion file of every book.
C18_ProviderFailureNotFatal ==
    /\ sem_pc # "raised"
    /\ sem_pc \in {"done", "raised"} => Len(written_files) = Len(sem_books)


\* --------------------------------------- claims on loading an artifact
\* base64.b64decode: the bytes a base64 text stands for
b64decode(text) == text[2]

\* the magic, the version and the length a decoder of the artifact expects
WellFormedArtifact(data) ==
    /\ Len(data) >= 36
    /\ \A i \in 1 .. 8 : data[i] = Byte(MAGIC[i])
    /\ ReadU32(data, 8) = VERSION
    /\ Len(data) = 36 + ReadU32(data, 16) * ReadU32(data, 12)
                      + ReadU32(data, 16) * 4
                      + ReadU32(data, 16) * ReadU32(data, 20) * 4

\* C21: a shard whose artifact has another magic, another version, or a
\* length other than 36 + N*dim + N*4 + N*m*4 is rejected when it is loaded
C21_CorruptArtifactRejected ==
    (/\ vb_pc # "call"
     /\ "ann_index" \in DOMAIN vb_file
     /\ "artifact_base64" \in DOMAIN vb_file.ann_index
     /\ ~WellFormedArtifact(b64decode(vb_file.ann_index.artifact_base64)))
        => vb_pc = "raised"


\* ------------------------------------- claims on the written ANN package
\* C22: artifact_checksum is the SHA-256 digest of exactly the bytes written
\* to the .ann.bin file, which are the bytes artifact_base64 stands for;
\* artifact_size is their number; the artifact itself is header, codes,
\* norms and neighbors and holds no digest
C22_ChecksumOfArtifact ==
    ann_pc = "written" =>
        /\ ann_out.ann_index.artifact_checksum = sha256_hex(ann_out.ann_bin)
        /\ b64decode(ann_out.ann_index.artifact_base64) = ann_out.ann_bin
        /\ ann_out.ann_index.artifact_size = Len(ann_out.ann_bin)
        /\ WellFormedArtifact(ann_out.ann_bin)

\* a written package of two nodes
C22_Witness ==
    /\ ann_pc = "written"
    /\ ann_out.node_count = 2
    /\ ann_out.ann_index.artifact_size = 36 + 2 * 2 + 2 * 4 + 2 * ann_out.m * 4


\* ------------------------------------------ claims on the quantization
\* the code of entry j of row i, read from the payload build_binary returned
CodeAt(i, j) == ReadI8(bb_ret[1], 36 + i * bb_vectors.shape[2] + j)

C25_ZeroBatch ==
    (/\ bb_pc # "call"
     /\ bb_vectors.shape[1] > 0
     /\ \A i \in 0 .. bb_vectors.shape[1] - 1 :
            \A j \in DOMAIN bb_vectors.data[i] : bb_vectors.data[i][j] = 0)
        => /\ bb_pc = "returned"
           /\ bb_ret[2] = ScaleFloor
           /\ \A i \in 0 .. bb_vectors.shape[1] - 1 :
                  \A j \in 0 .. bb_vectors.shape[2] - 1 : CodeAt(i, j) = 0

\* a batch of two zero vectors, encoded
C25_Witness ==
    /\ bb_pc = "returned"
    /\ bb_vectors.shape = <<2, 2>>
    /\ bb_vectors.data[0] = <<0, 0>>
    /\ bb_vectors.data[1] = <<0, 0>>
    /\ bb_ret[2] = ScaleFloor


\* ------------------------------------------- claims on the labelling
\* the similarity of a section to label k, from the section's own prompt
SimilarityTo(book, section, k) ==
    Dot(AnnNormalizeRow(SemProviderEmbedding(Prompt(book, section))), label_vecs[k])

C27_UnreachableNeverRaised ==
    sem_error # "RuntimeError: Unreachable"


\* ------------------------------------------- claims on the chunking
\* C28: chunk_text_with_page_context never loops forever: every pass of the
\* while loop that is followed by another pass over the same page has moved
\* the window forward
C28_ChunkingTerminates ==
    [][(ck_pc = "window" /\ ck_pc' = "window") => ck_start' > ck_start]_vars


\* C29: the m and ef_search recorded in ann_index.params of a written
\* package are the m and ef_search of the header of its artifact, and the
\* node_count of the header is the length of id_map
C29_ParamsMatchHeader ==
    ann_pc = "written" =>
        /\ ann_out.ann_index.params.m = ReadU32(ann_out.ann_bin, 20)
        /\ ann_out.ann_index.params.ef_search = ReadU32(ann_out.ann_bin, 28)
        /\ ReadU32(ann_out.ann_bin, 16) = Len(ann_out.ann_index.id_map)


\* ------------------------------------- claims on the counts of a book
RECURSIVE BucketCountSum(_)
\* the sum of the counts of the buckets in S
BucketCountSum(S) ==
    IF S = {} THEN 0
    ELSE LET k == CHOOSE x \in S : TRUE
         IN  section_stats[k].count + BucketCountSum(S \ {k})

RECURSIVE EmittedCountSum(_)
\* the sum of chunk_count over a list of emitted sections
EmittedCountSum(sections) ==
    IF Len(sections) = 0 THEN 0
    ELSE Head(sections).chunk_count + EmittedCountSum(Tail(sections))

\* the chunks of a bucket whose id is a string
WithStringId(idx) == {p \in Members(idx) : route_chunks[p].id # NotStr}

\* C30 as stated: the chunk_count of every emitted section is the length of
\* its chunk_ids, and the chunk_count of the book is the sum of the counts of
\* all its buckets, so at least the sum over its emitted sections
C30_CountEqualsIds ==
    \A b \in EmittedBooks :
        /\ \A sec \in Range(b.sections) : sec.chunk_count = Len(sec.chunk_ids)
        /\ b.chunk_count = BucketCountSum(DOMAIN section_stats)
        /\ b.chunk_count >= EmittedCountSum(b.sections)

\* C30 amended: chunk_ids lists the chunks of the section whose id is a
\* string, chunk_count counts these and the chunks without a string id, so
\* chunk_count >= len(chunk_ids); the chunk_count of the book is the sum of
\* the counts of all its buckets, at least the sum over its emitted sections
C30_CountCoversIds ==
    \A b \in EmittedBooks :
        /\ \A sec \in Range(b.sections) :
              /\ Len(sec.chunk_ids) = Cardinality(WithStringId(sec.section_id))
              /\ sec.chunk_count =
                     Len(sec.chunk_ids)
                         + Cardinality(Members(sec.section_id)
                                           \ WithStringId(sec.section_id))
        /\ b.chunk_count = BucketCountSum(DOMAIN section_stats)
        /\ b.chunk_count >= EmittedCountSum(b.sections)

\* a book with a section of two chunks, one of them without a string id, and
\* a bucket that was pruned
C30_Witness ==
    \E b \in EmittedBooks :
        /\ \E sec \in Range(b.sections) :
              sec.chunk_count = 2 /\ Len(sec.chunk_ids) = 1
        /\ b.chunk_count = 3
        /\ EmittedCountSum(b.sections) = 2

====
